---- MODULE Spec2Model ----
(***************************************************************************)
(* Model of the scene-graph flattening and mesh-chunking logic of          *)
(* Magnum's UfbxImporter plugin (src/MagnumPlugins/UfbxImporter).          *)
(*                                                                         *)
(* The parsed ufbx_scene is the input of the importer.  Ids are zero-based *)
(* as in the C++ code; TLA+ sequences are one-based, so At(s, i) reads     *)
(* element i of an array.                                                  *)
(***************************************************************************)
EXTENDS Integers, Sequences, FiniteSets, TLC

VARIABLES conf, document, state, result, pc, imageLog

vars == <<conf, document, state, result, pc, imageLog>>

(***************************************************************************)
(* Bounds of the explored inputs.                                          *)
(***************************************************************************)
MaxMeshes == 2
MaxSlots == 2
MaxTotalFaces == 2
MaxNodes == 2
MaxAttachments == 1
MaxTextures == 3
MaxFiles == 2
MaxImageQueries == 3
MaxGltfNodes == 3
MaxExtensions == 2
MaxRoots == 2
MaxFillNodes == 2
MaxGltfMeshes == 2
MaxPrimitives == 3
MaxGarbage == 4
MaxSets == 2

(***************************************************************************)
(* Array helpers.                                                          *)
(***************************************************************************)
At(s, i) == s[i + 1]

Size(s) == Len(s)

Indices(s) == 0 .. (Len(s) - 1)

SetAt(s, i, v) == [s EXCEPT ![i + 1] = v]

Filled(n, v) == [k \in 1 .. n |-> v]

RECURSIVE SumSeq(_)
SumSeq(s) == IF s = <<>> THEN 0 ELSE Head(s) + SumSeq(Tail(s))

(***************************************************************************)
(* UnsignedInt arithmetic.  A 32-bit unsigned value is held as its 32-bit  *)
(* two's-complement representative: a negative -k stands for 2^32 - k, so  *)
(* sums, differences and products wrap as in C++ and only comparisons      *)
(* need care.                                                              *)
(***************************************************************************)
USub(a, b) == a - b

UAdd(a, b) == a + b

UMul(a, b) == a * b

ULess(a, b) == IF (a < 0) = (b < 0) THEN a < b ELSE b < 0

\* ~UnsignedInt{}, the largest value.
UMax == 0 - 1

(***************************************************************************)
(* Primitive kinds, in the order the chunk builder tests them.             *)
(***************************************************************************)
Primitives == <<"Points", "Lines", "Triangles">>

PrimitiveRank(p) == CHOOSE k \in 1 .. 3 : Primitives[k] = p

\* Face count of one primitive kind in a ufbx_mesh_material.
FaceCount(mat, p) ==
    CASE p = "Points" -> mat.num_point_faces
      [] p = "Lines" -> mat.num_line_faces
      [] p = "Triangles" -> mat.num_triangles

\* Vertices per face of a primitive kind.
IndicesPerFace(p) ==
    CASE p = "Points" -> 1
      [] p = "Lines" -> 2
      [] p = "Triangles" -> 3

(***************************************************************************)
(* The source document as the parser receives it ("raw"), and the          *)
(* ufbx_scene the parser hands to the importer.                            *)
(*                                                                         *)
(*   raw node   = [parent, attribs, geom, materials]                       *)
(*   raw mesh   = [materials, skinned, vertex_normal, uv_sets, color_sets] *)
(*   mesh slot  = [num_point_faces, num_line_faces, num_triangles,         *)
(*                 material]            (a ufbx_mesh_material)             *)
(*   element    = [type, id]            (type: "mesh", "light", "camera")  *)
(*   texture    = [has_file, file_index, name]                             *)
(*                                                                         *)
(* Node 0 of a document is the implicit root; parent -1 is "no parent",    *)
(* material -1 is "no material".                                           *)
(***************************************************************************)
NoParent == 0 - 1

NoMaterial == 0 - 1

Identity == [kind |-> "identity", node |-> NoParent]

LocalTransform(i) == [kind |-> "local", node |-> i]

GeometryTransform(i) == [kind |-> "geometry", node |-> i]

Element(t, i) == [type |-> t, id |-> i]

\* Number of nodes of the raw document that attach element e (with
\* multiplicity).
RECURSIVE CountElement(_, _)
CountElement(attribs, e) ==
    IF attribs = <<>> THEN 0
    ELSE (IF Head(attribs) = e THEN 1 ELSE 0) + CountElement(Tail(attribs), e)

RawInstanceCount(raw, e) ==
    SumSeq([k \in 1 .. Len(raw.nodes) |-> CountElement(raw.nodes[k].attribs, e)])

IsSkinnedMesh(raw, e) == e.type = "mesh" /\ At(raw.meshes, e.id).skinned

\* Whether the parser gives node i a geometry-transform helper node.
NeedsHelper(raw, handling, i) ==
    LET n == At(raw.nodes, i)
    IN  /\ n.geom
        /\ CASE handling = "helperNodes" -> TRUE
             [] handling = "modifyGeometry" ->
                    \E k \in 1 .. Len(n.attribs) :
                        \/ n.attribs[k].type # "mesh"
                        \/ RawInstanceCount(raw, n.attribs[k]) > 1
             [] OTHER -> FALSE

RECURSIVE SeqOfSet(_)
SeqOfSet(S) ==
    IF S = {} THEN <<>>
    ELSE LET m == CHOOSE x \in S : \A y \in S : x <= y
         IN  <<m>> \o SeqOfSet(S \ {m})

\* Node ids (with multiplicity, in node order) whose attachments hold e.
RECURSIVE InstancesFrom(_, _, _)
InstancesFrom(nodes, e, k) ==
    IF k > Len(nodes) THEN <<>>
    ELSE Filled(CountElement(nodes[k].all_attribs, e), nodes[k].typed_id)
            \o InstancesFrom(nodes, e, k + 1)

Instances(nodes, e) == InstancesFrom(nodes, e, 1)

\* The parsed scene of a raw document under the load options.
ufbx_load(raw, opts) ==
    LET h == opts.geometry_transform_handling
        n == Len(raw.nodes)
        helped == SeqOfSet({i \in 0 .. (n - 1) : NeedsHelper(raw, h, i)})
        original(i) ==
            LET r == At(raw.nodes, i)
                hasHelper == NeedsHelper(raw, h, i)
            IN  [typed_id |-> i,
                 name |-> raw.nodeNames[i + 1],
                 is_root |-> (i = 0),
                 parent |-> r.parent,
                 all_attribs |->
                     IF hasHelper
                     THEN SelectSeq(r.attribs, LAMBDA e : IsSkinnedMesh(raw, e))
                     ELSE r.attribs,
                 materials |-> r.materials,
                 local_transform |-> LocalTransform(i),
                 geometry_transform |->
                     IF r.geom /\ h = "preserve"
                     THEN GeometryTransform(i) ELSE Identity,
                 visible |-> TRUE,
                 is_geometry_transform_helper |-> FALSE]
        helper(k) ==
            LET i == helped[k]
                r == At(raw.nodes, i)
            IN  [typed_id |-> n + k - 1,
                 name |-> "",
                 is_root |-> FALSE,
                 parent |-> i,
                 all_attribs |->
                     SelectSeq(r.attribs, LAMBDA e : ~IsSkinnedMesh(raw, e)),
                 materials |-> r.materials,
                 local_transform |-> GeometryTransform(i),
                 geometry_transform |-> Identity,
                 visible |-> TRUE,
                 is_geometry_transform_helper |-> TRUE]
        nodes == [k \in 1 .. n |-> original(k - 1)]
                     \o [k \in 1 .. Len(helped) |-> helper(k)]
    IN  [nodes |-> nodes,
         meshes |->
             [k \in 1 .. Len(raw.meshes) |->
                 [typed_id |-> k - 1,
                  materials |-> raw.meshes[k].materials,
                  skinned |-> raw.meshes[k].skinned,
                  vertex_normal |-> raw.meshes[k].vertex_normal,
                  uv_sets |-> raw.meshes[k].uv_sets,
                  color_sets |-> raw.meshes[k].color_sets,
                  instances |-> Instances(nodes, Element("mesh", k - 1))]],
         lights |->
             [k \in 1 .. raw.numLights |->
                 [typed_id |-> k - 1,
                  type |-> raw.lightTypes[k],
                  decay |-> raw.lightDecays[k],
                  instances |-> Instances(nodes, Element("light", k - 1))]],
         cameras |->
             [k \in 1 .. raw.numCameras |->
                 [typed_id |-> k - 1,
                  instances |-> Instances(nodes, Element("camera", k - 1))]],
         textures |->
             [k \in 1 .. Len(raw.textures) |->
                 [typed_id |-> k - 1,
                  has_file |-> raw.textures[k].has_file,
                  file_index |-> raw.textures[k].file_index,
                  name |-> raw.textures[k].name]],
         texture_files |-> raw.files]

EmptyScene ==
    [nodes |-> <<>>, meshes |-> <<>>, lights |-> <<>>, cameras |-> <<>>,
     textures |-> <<>>, texture_files |-> <<>>]

(***************************************************************************)
(* Configuration and load options.                                         *)
(***************************************************************************)
DefaultConfiguration ==
    [geometryTransformHandling |-> "helperNodes",
     unitNormalizationHandling |-> "adjustTransforms",
     preserveRootNode |-> FALSE,
     maxUvSets |-> 0 - 1, maxTangentSets |-> 0 - 1, maxColorSets |-> 0 - 1]

\* getLoadOptsFromConfiguration(): ok is its return value, out what it
\* prints.  unitNormalizationHandling is tested first.
getLoadOptsUnchecked(c, errorPrefix) ==
    [ok |-> TRUE,
     out |-> <<>>,
     space_conversion |-> c.unitNormalizationHandling,
     geometry_transform_handling |-> c.geometryTransformHandling]

getLoadOptsFromConfiguration(c, errorPrefix) ==
    IF c.unitNormalizationHandling \notin {"transformRoot", "adjustTransforms"}
    THEN [ok |-> FALSE,
          out |-> <<errorPrefix, "Unsupported unitNormalizationHandling configuration:",
                    c.unitNormalizationHandling>>,
          space_conversion |-> "none",
          geometry_transform_handling |-> "none"]
    ELSE IF c.geometryTransformHandling
                \notin {"preserve", "helperNodes", "modifyGeometry"}
    THEN [ok |-> FALSE,
          out |-> <<errorPrefix, "Unsupported geometryTransformHandling configuration:",
                    c.geometryTransformHandling>>,
          space_conversion |-> "none",
          geometry_transform_handling |-> "none"]
    ELSE [ok |-> TRUE,
          out |-> <<>>,
          space_conversion |-> c.unitNormalizationHandling,
          geometry_transform_handling |-> c.geometryTransformHandling]

(***************************************************************************)
(* UfbxImporter::State.  A null _state is the record NoState.              *)
(***************************************************************************)
NoImage == UMax

NoState ==
    [opened |-> FALSE,
     scene |-> EmptyScene,
     meshChunks |-> <<>>,
     meshChunkMapping |-> <<>>,
     nodeIdOffset |-> 0,
     objectCount |-> 0,
     fromFile |-> FALSE,
     textures |-> <<>>,
     textureRemap |-> <<>>,
     imageImporterId |-> NoImage,
     imageImporter |-> FALSE,
     preserveRootNode |-> FALSE]

MeshChunk(meshId, meshMaterialIndex, primitive) ==
    [meshId |-> meshId, meshMaterialIndex |-> meshMaterialIndex,
     primitive |-> primitive]

\* A bug variant: triangles are tested before points and lines.
AppendChunksTrianglesFirst(meshChunks, typed_id, j, mat) ==
    LET c1 == IF mat.num_triangles > 0
              THEN Append(meshChunks, MeshChunk(typed_id, j, "Triangles"))
              ELSE meshChunks
        c2 == IF mat.num_point_faces > 0
              THEN Append(c1, MeshChunk(typed_id, j, "Points"))
              ELSE c1
    IN  IF mat.num_line_faces > 0
        THEN Append(c2, MeshChunk(typed_id, j, "Lines"))
        ELSE c2

\* A bug variant: the three tests chained with "else".
AppendChunksFirstKindOnly(meshChunks, typed_id, j, mat) ==
    IF mat.num_point_faces > 0
    THEN Append(meshChunks, MeshChunk(typed_id, j, "Points"))
    ELSE IF mat.num_line_faces > 0
    THEN Append(meshChunks, MeshChunk(typed_id, j, "Lines"))
    ELSE IF mat.num_triangles > 0
    THEN Append(meshChunks, MeshChunk(typed_id, j, "Triangles"))
    ELSE meshChunks

\* The body of the material-slot loop of openInternal: one chunk per
\* primitive kind that has faces in the slot.
AppendChunks(meshChunks, typed_id, j, mat) ==
    LET c1 == IF mat.num_point_faces > 0
              THEN Append(meshChunks, MeshChunk(typed_id, j, "Points"))
              ELSE meshChunks
        c2 == IF mat.num_line_faces > 0
              THEN Append(c1, MeshChunk(typed_id, j, "Lines"))
              ELSE c1
    IN  IF mat.num_triangles > 0
        THEN Append(c2, MeshChunk(typed_id, j, "Triangles"))
        ELSE c2

\* for(j = 0; j < mesh->materials.count; ++j)
RECURSIVE SlotLoop(_, _, _)
SlotLoop(meshChunks, mesh, j) ==
    IF j < Size(mesh.materials)
    THEN SlotLoop(AppendChunks(meshChunks, mesh.typed_id, j, At(mesh.materials, j)),
                  mesh, j + 1)
    ELSE meshChunks

\* A bug variant: the count is the array size, not the size difference.
ChunkMappingAbsolute(baseIndex, meshChunks) ==
    [baseIndex |-> baseIndex, count |-> Size(meshChunks)]

\* The MeshChunkMapping of a mesh whose chunks were appended from baseIndex.
ChunkMapping(baseIndex, meshChunks) ==
    [baseIndex |-> baseIndex, count |-> USub(Size(meshChunks), baseIndex)]

\* for(i = 0; i < scene->meshes.count; ++i); acc holds meshChunks and
\* meshChunkMapping.
RECURSIVE MeshLoop(_, _, _)
MeshLoop(acc, scene, i) ==
    IF i < Size(scene.meshes)
    THEN LET baseIndex == Size(acc.meshChunks)
             chunks == SlotLoop(acc.meshChunks, At(scene.meshes, i), 0)
         IN  MeshLoop([meshChunks |-> chunks,
                       meshChunkMapping |->
                           SetAt(acc.meshChunkMapping, i, ChunkMapping(baseIndex, chunks))],
                      scene, i + 1)
    ELSE acc

\* Count the final number of nodes, the root possibly removed.
CountObjects(scene, preserveRootNode) ==
    IF ~preserveRootNode
    THEN [objectCount |-> USub(Size(scene.nodes), 1), nodeIdOffset |-> 1]
    ELSE [objectCount |-> Size(scene.nodes), nodeIdOffset |-> 0]

\* A bug variant: the remap entry is the source index itself.
RemapTextureIdentity(acc, texture) ==
    [textureRemap |-> SetAt(acc.textureRemap, texture.typed_id, texture.typed_id),
     textures |-> Append(acc.textures,
                         [textureIndex |-> texture.typed_id,
                          fileTextureIndex |-> texture.file_index])]

\* The body of the texture loop for a texture that has a file.
RemapTexture(acc, texture) ==
    [textureRemap |-> SetAt(acc.textureRemap, texture.typed_id, Size(acc.textures)),
     textures |-> Append(acc.textures,
                         [textureIndex |-> texture.typed_id,
                          fileTextureIndex |-> texture.file_index])]

\* for(const ufbx_texture* texture : scene->textures)
RECURSIVE TextureLoop(_, _, _)
TextureLoop(acc, scene, k) ==
    IF k < Size(scene.textures)
    THEN LET texture == At(scene.textures, k)
         IN  TextureLoop(IF ~texture.has_file THEN acc ELSE RemapTexture(acc, texture),
                         scene, k + 1)
    ELSE acc

\* The State that openInternal builds.
openInternal(scene, opts, fromFile) ==
    LET preserveRootNode == (opts.space_conversion = "transformRoot")
        chunks == MeshLoop([meshChunks |-> <<>>,
                            meshChunkMapping |->
                                Filled(Size(scene.meshes),
                                       [baseIndex |-> 0, count |-> 0])],
                           scene, 0)
        objects == CountObjects(scene, preserveRootNode)
        tex == TextureLoop([textureRemap |-> Filled(Size(scene.textures), 0 - 1),
                            textures |-> <<>>],
                           scene, 0)
    IN  [opened |-> TRUE,
         scene |-> scene,
         meshChunks |-> chunks.meshChunks,
         meshChunkMapping |-> chunks.meshChunkMapping,
         nodeIdOffset |-> objects.nodeIdOffset,
         objectCount |-> objects.objectCount,
         fromFile |-> fromFile,
         textures |-> tex.textures,
         textureRemap |-> tex.textureRemap,
         imageImporterId |-> NoImage,
         imageImporter |-> FALSE,
         preserveRootNode |-> preserveRootNode]

(***************************************************************************)
(* UfbxImporter::doScene.  The output arrays are allocated NoInit; an      *)
(* entry that was never written holds Garbage / GarbageTransform, and      *)
(* nodeWrites counts the node-loop iterations that wrote each object row.  *)
(* outOfBounds is set by a write past the end of its array.                *)
(***************************************************************************)
Garbage == 0 - 2

GarbageTransform == [kind |-> "noinit", node |-> Garbage]

StoreDropped(arr, i, v) == arr

Store(arr, i, v) == IF ULess(i, Size(arr)) THEN SetAt(arr, i, v) ELSE arr

InBounds(arr, i) == ULess(i, Size(arr))

\* Count pass: each chunk of a mesh is bound to each node that refers to it.
RECURSIVE CountMeshInstances(_, _, _)
CountMeshInstances(st, scene, k) ==
    IF k < Size(scene.meshes)
    THEN LET mesh == At(scene.meshes, k)
             instanceCount == Size(mesh.instances)
             chunkCount == At(st.meshChunkMapping, mesh.typed_id).count
         IN  UAdd(UMul(instanceCount, chunkCount),
                  CountMeshInstances(st, scene, k + 1))
    ELSE 0

\* Count pass for lights and cameras: the sum of their instance counts.
RECURSIVE CountInstances(_, _)
CountInstances(elements, k) ==
    IF k < Size(elements)
    THEN UAdd(Size(At(elements, k).instances), CountInstances(elements, k + 1))
    ELSE 0

\* The material of one mesh-instance record: the node's material at the
\* running materialIndex if it has that many, else the slot's own.
ResolveMaterial(node, materialIndex, mat) ==
    IF materialIndex < Size(node.materials)
    THEN At(node.materials, materialIndex)
    ELSE mat.material

\* for(i = 0; i < chunkMapping.count; ++i) for one attached mesh.
RECURSIVE ChunkLoop(_, _, _, _, _, _, _)
ChunkLoop(acc, st, node, nodeId, mesh, i, materialIndex) ==
    LET chunkMapping == At(st.meshChunkMapping, mesh.typed_id)
    IN  IF ULess(i, chunkMapping.count)
        THEN LET chunkIndex == UAdd(chunkMapping.baseIndex, i)
                 chunk == At(st.meshChunks, chunkIndex)
                 mat == At(mesh.materials, chunk.meshMaterialIndex)
                 material == ResolveMaterial(node, materialIndex, mat)
                 o == acc.meshMaterialOffset
             IN  ChunkLoop(
                     [acc EXCEPT
                         !.meshMaterialObjects = Store(@, o, nodeId),
                         !.meshes = Store(acc.meshes, o, chunkIndex),
                         !.meshMaterials = Store(acc.meshMaterials, o, material),
                         !.outOfBounds = @ \/ ~InBounds(acc.meshes, o),
                         !.meshMaterialOffset = UAdd(o, 1)],
                     st, node, nodeId, mesh, i + 1, UAdd(materialIndex, 1))
        ELSE acc

\* for(const ufbx_element* element : node->all_attribs)
RECURSIVE AttribLoop(_, _, _, _, _)
AttribLoop(acc, st, node, nodeId, k) ==
    IF k < Size(node.all_attribs)
    THEN LET element == At(node.all_attribs, k)
             next ==
                 CASE element.type = "mesh" ->
                        ChunkLoop(acc, st, node, nodeId,
                                  At(st.scene.meshes, element.id), 0, 0)
                   [] element.type = "light" ->
                        [acc EXCEPT
                            !.lightObjects = Store(@, acc.lightOffset, nodeId),
                            !.lights = Store(@, acc.lightOffset, element.id),
                            !.outOfBounds = @ \/ ~InBounds(acc.lights, acc.lightOffset),
                            !.lightOffset = UAdd(@, 1)]
                   [] element.type = "camera" ->
                        [acc EXCEPT
                            !.cameraObjects = Store(@, acc.cameraOffset, nodeId),
                            !.cameras = Store(@, acc.cameraOffset, element.id),
                            !.outOfBounds = @ \/ ~InBounds(acc.cameras, acc.cameraOffset),
                            !.cameraOffset = UAdd(@, 1)]
                   [] OTHER -> acc
         IN  AttribLoop(next, st, node, nodeId, k + 1)
    ELSE acc

\* A bug variant: the parent keeps its source node id.
ParentObjectSourceId(st, node) ==
    IF node.parent # NoParent
           /\ (st.preserveRootNode \/ ~At(st.scene.nodes, node.parent).is_root)
    THEN node.parent
    ELSE 0 - 1

\* The Parent field value of a node.
ParentObject(st, node) ==
    IF node.parent # NoParent
           /\ (st.preserveRootNode \/ ~At(st.scene.nodes, node.parent).is_root)
    THEN USub(node.parent, st.nodeIdOffset)
    ELSE 0 - 1

\* A bug variant: the root is never skipped.
SkipNodeNever(st, node) == FALSE

\* Whether the node loop skips the node (the elided root).
SkipNode(st, node) == ~st.preserveRootNode /\ node.is_root

\* A bug variant: attachments are bound to the source node id.
NodeObjectSourceId(st, node) == node.typed_id

\* The object id of a source node.
NodeObject(st, node) == USub(node.typed_id, st.nodeIdOffset)

\* The body of the node loop for one node.
FillNode(acc, st, node, retainGeometryTransforms) ==
    IF SkipNode(st, node) THEN acc
    ELSE LET nodeId == NodeObject(st, node)
             rows ==
                 [acc EXCEPT
                     !.nodeObjects = Store(@, nodeId, nodeId),
                     !.parents = Store(@, nodeId, ParentObject(st, node)),
                     !.translations = Store(@, nodeId, node.local_transform),
                     !.rotations = Store(@, nodeId, node.local_transform),
                     !.scalings = Store(@, nodeId, node.local_transform),
                     !.visibilities = Store(@, nodeId, IF node.visible THEN 1 ELSE 0),
                     !.geometryTransformHelpers =
                         Store(@, nodeId,
                               IF node.is_geometry_transform_helper THEN 1 ELSE 0),
                     !.nodeWrites =
                         Store(@, nodeId,
                               IF InBounds(acc.nodeWrites, nodeId)
                               THEN At(acc.nodeWrites, nodeId) + 1 ELSE 0),
                     !.outOfBounds = @ \/ ~InBounds(acc.nodeObjects, nodeId)]
             geom ==
                 IF retainGeometryTransforms
                 THEN [rows EXCEPT
                          !.geometryTranslations =
                              Store(@, nodeId, node.geometry_transform),
                          !.geometryRotations =
                              Store(@, nodeId, node.geometry_transform),
                          !.geometryScalings =
                              Store(@, nodeId, node.geometry_transform),
                          !.outOfBounds =
                              @ \/ ~InBounds(rows.geometryTranslations, nodeId)]
                 ELSE rows
         IN  AttribLoop(geom, st, node, nodeId, 0)

\* for(const ufbx_node* node : scene->nodes)
RECURSIVE NodeLoop(_, _, _, _)
NodeLoop(acc, st, k, retainGeometryTransforms) ==
    IF k < Size(st.scene.nodes)
    THEN NodeLoop(FillNode(acc, st, At(st.scene.nodes, k), retainGeometryTransforms),
                  st, k + 1, retainGeometryTransforms)
    ELSE acc

\* The fields of the SceneData, in the order they are appended.
SceneFields(retainGeometryTransforms, meshCount, lightCount, cameraCount) ==
    <<"Parent", "Translation", "Rotation", "Scaling", "Visibility",
      "GeometryTransformHelper">>
        \o (IF retainGeometryTransforms
            THEN <<"GeometryTranslation", "GeometryRotation", "GeometryScaling">>
            ELSE <<>>)
        \o (IF meshCount # 0 THEN <<"Mesh", "MeshMaterial">> ELSE <<>>)
        \o (IF lightCount # 0 THEN <<"Light">> ELSE <<>>)
        \o (IF cameraCount # 0 THEN <<"Camera">> ELSE <<>>)

\* What doScene computes: the tables, the counts of the first pass, the
\* three assertions after the fill loop and the SceneData pieces.
SceneOf(st, c) ==
    LET scene == st.scene
        retainGeometryTransforms == (c.geometryTransformHandling = "preserve")
        nodeCount == st.objectCount
        geometryTransformCount == IF retainGeometryTransforms THEN nodeCount ELSE 0
        meshCount == CountMeshInstances(st, scene, 0)
        lightCount == CountInstances(scene.lights, 0)
        cameraCount == CountInstances(scene.cameras, 0)
        filled ==
            NodeLoop(
                [nodeObjects |-> Filled(nodeCount, Garbage),
                 parents |-> Filled(nodeCount, Garbage),
                 translations |-> Filled(nodeCount, GarbageTransform),
                 rotations |-> Filled(nodeCount, GarbageTransform),
                 scalings |-> Filled(nodeCount, GarbageTransform),
                 visibilities |-> Filled(nodeCount, Garbage),
                 geometryTransformHelpers |-> Filled(nodeCount, Garbage),
                 geometryTranslations |->
                     Filled(geometryTransformCount, GarbageTransform),
                 geometryRotations |->
                     Filled(geometryTransformCount, GarbageTransform),
                 geometryScalings |->
                     Filled(geometryTransformCount, GarbageTransform),
                 meshMaterialObjects |-> Filled(meshCount, Garbage),
                 meshes |-> Filled(meshCount, Garbage),
                 meshMaterials |-> Filled(meshCount, Garbage),
                 cameraObjects |-> Filled(cameraCount, Garbage),
                 cameras |-> Filled(cameraCount, Garbage),
                 lightObjects |-> Filled(lightCount, Garbage),
                 lights |-> Filled(lightCount, Garbage),
                 meshMaterialOffset |-> 0,
                 lightOffset |-> 0,
                 cameraOffset |-> 0,
                 nodeWrites |-> Filled(nodeCount, 0),
                 outOfBounds |-> FALSE],
                st, 0, retainGeometryTransforms)
    IN  [op |-> "scene",
         data |-> filled,
         meshCount |-> meshCount,
         lightCount |-> lightCount,
         cameraCount |-> cameraCount,
         assertMesh |-> (filled.meshMaterialOffset = Size(filled.meshMaterialObjects)),
         assertLight |-> (filled.lightOffset = Size(filled.lightObjects)),
         assertCamera |-> (filled.cameraOffset = Size(filled.cameraObjects)),
         mappingBound |-> nodeCount,
         fields |-> SceneFields(retainGeometryTransforms, meshCount,
                                lightCount, cameraCount)]

(***************************************************************************)
(* Operations of the importer.  result is what the last call returned and  *)
(* printed; pc is "aborted" once an internal assertion has failed;         *)
(* document is the source document of the opened file; imageLog lists the  *)
(* image queries made on the opened file, each with whether it made the    *)
(* external image importer open the image.                                 *)
(***************************************************************************)
NoResult == [op |-> "none"]

\* Bytes the parser rejects.
BadData ==
    [parseable |-> FALSE, error |-> "Unrecognized file format", info |-> "",
     nodes |-> <<>>, meshes |-> <<>>, numLights |-> 0, lightTypes |-> <<>>,
     lightDecays |-> <<>>, nodeNames |-> <<>>,
     numCameras |-> 0, textures |-> <<>>, files |-> <<>>]

\* No document is open.
NoDocument == [BadData EXCEPT !.error = "none"]

\* A file name the parser cannot load a file from.
MissingFile(filename) ==
    [BadData EXCEPT !.error = "File not found", !.info = filename]

\* logError(prefix, error) without ImporterFlag::Verbose: the line it
\* prints, the pieces joined without spaces.
logError(prefix, error) ==
    IF error.info # ""
    THEN prefix \o error.description \o ": " \o error.info
    ELSE prefix \o error.description

\* AbstractImporter closes an opened file before it calls doOpenData() or
\* doOpenFile(), so both start from a null _state.  In the result, out is
\* the lines printed to Error (a line printed with spaces between its
\* pieces is the tuple of the pieces) and parsed tells whether the parser
\* was called.
Open(raw, fromFile, name) ==
    /\ pc = "running"
    /\ ~state.opened
    /\ LET opts == getLoadOptsFromConfiguration(
                       conf, "Trade::UfbxImporter::" \o name \o "():")
       IN  IF ~opts.ok
           THEN /\ UNCHANGED <<state, document>>
                /\ result' = [op |-> name, ok |-> FALSE, parsed |-> FALSE,
                              out |-> <<opts.out>>]
           ELSE IF ~raw.parseable
           THEN /\ UNCHANGED <<state, document>>
                /\ result' = [op |-> name, ok |-> FALSE, parsed |-> TRUE,
                              out |-> <<logError(
                                          "Trade::UfbxImporter::" \o name
                                              \o "(): loading failed: ",
                                          [description |-> raw.error,
                                           info |-> raw.info])>>]
           ELSE /\ state' = openInternal(ufbx_load(raw, opts), opts, fromFile)
                /\ document' = raw
                /\ result' = [op |-> name, ok |-> TRUE, parsed |-> TRUE,
                              out |-> <<>>]
    /\ imageLog' = <<>>
    /\ UNCHANGED <<conf, pc>>

doOpenData(raw) == Open(raw, FALSE, "openData")

doOpenFile(raw) == Open(raw, TRUE, "openFile")

doClose ==
    /\ pc = "running"
    /\ state.opened
    /\ state' = NoState
    /\ document' = NoDocument
    /\ result' = [op |-> "close"]
    /\ imageLog' = <<>>
    /\ UNCHANGED <<conf, pc>>

doScene ==
    /\ pc = "running"
    /\ state.opened
    /\ LET s == SceneOf(state, conf)
       IN  /\ result' = s
           /\ pc' = IF s.assertMesh /\ s.assertLight /\ s.assertCamera
                    THEN "running" ELSE "aborted"
    /\ UNCHANGED <<conf, document, state, imageLog>>

doObjectCount ==
    /\ pc = "running"
    /\ state.opened
    /\ result' = [op |-> "objectCount", value |-> state.objectCount]
    /\ UNCHANGED <<conf, document, state, pc, imageLog>>

\* A Long, as its upper and lower 32 bits: converted from an UnsignedInt
\* (zero-extended) and from an Int (sign-extended).
LongOfUnsignedInt(u) == [high |-> 0, low |-> u]

LongOfInt(i) == [high |-> IF i < 0 THEN 0 - 1 ELSE 0, low |-> i]

\* doObjectForName(name): ufbx_find_node_len() yields some node of that
\* name, the root included, or none; the id is the UnsignedInt difference
\* of typed_id and nodeIdOffset converted to Long.
doObjectForName(name) ==
    /\ pc = "running"
    /\ state.opened
    /\ \/ /\ \A k \in Indices(state.scene.nodes) :
                  At(state.scene.nodes, k).name # name
          /\ result' = [op |-> "objectForName", name |-> name,
                        node |-> 0 - 1, value |-> LongOfInt(0 - 1)]
       \/ \E k \in Indices(state.scene.nodes) :
             /\ At(state.scene.nodes, k).name = name
             /\ result' =
                    [op |-> "objectForName", name |-> name, node |-> k,
                     value |-> LongOfUnsignedInt(
                                   USub(At(state.scene.nodes, k).typed_id,
                                        state.nodeIdOffset))]
    /\ UNCHANGED <<conf, document, state, pc, imageLog>>

\* doObjectName(id): AbstractImporter checks id against objectCount().
doObjectName(id) ==
    /\ pc = "running"
    /\ state.opened
    /\ id < state.objectCount
    /\ result' = [op |-> "objectName", id |-> id,
                  value |-> At(state.scene.nodes,
                               id + state.nodeIdOffset).name]
    /\ UNCHANGED <<conf, document, state, pc, imageLog>>

doMeshCount ==
    /\ pc = "running"
    /\ state.opened
    /\ result' = [op |-> "meshCount", value |-> Size(state.meshChunks)]
    /\ UNCHANGED <<conf, document, state, pc, imageLog>>

\* The index count doMesh derives for a chunk.
IndexCount(mat, primitive) ==
    UMul(FaceCount(mat, primitive), IndicesPerFace(primitive))

\* unboundedIfNegative(): a negative limit becomes ~UnsignedInt{}.
unboundedIfNegative(value) == IF value >= 0 THEN value ELSE UMax

\* Utility::min() of two UnsignedInt.
UMin(a, b) == IF ULess(b, a) THEN b ELSE a

\* Every tangent and bitangent set up to the limit, complete or not.
TangentSetCountsUntruncated(uv_sets, i, tangentSetCount) ==
    [tangentSetCount |-> tangentSetCount,
     bitangentSetCount |-> tangentSetCount]

\* The loop over the UV sets below tangentSetCount, from set i on: it stops
\* at the first set that lacks its tangents or bitangents and keeps of that
\* set what exists.
RECURSIVE TangentSetCounts(_, _, _)
TangentSetCounts(uv_sets, i, tangentSetCount) ==
    IF ~ULess(i, tangentSetCount)
    THEN [tangentSetCount |-> tangentSetCount,
          bitangentSetCount |-> tangentSetCount]
    ELSE LET uv_set == At(uv_sets, i)
         IN  IF ~uv_set.vertex_tangent \/ ~uv_set.vertex_bitangent
             THEN [tangentSetCount |->
                       i + (IF uv_set.vertex_tangent THEN 1 ELSE 0),
                   bitangentSetCount |->
                       i + (IF uv_set.vertex_bitangent THEN 1 ELSE 0)]
             ELSE TangentSetCounts(uv_sets, i + 1, tangentSetCount)

\* sizeof() of the vertex attribute types.
Sizeof(type) ==
    CASE type = "Vector2" -> 8
      [] type = "Vector3" -> 12
      [] type = "Color4" -> 16

\* attributeData after count more attributes of one name and type were
\* written behind those of a.
RECURSIVE AppendAttributes(_, _, _, _)
AppendAttributes(a, name, type, count) ==
    IF count = 0 THEN a
    ELSE AppendAttributes(
             [attributeData |->
                  Append(a.attributeData,
                         [name |-> name, offset |-> a.attributeOffset]),
              attributeOffset |-> UAdd(a.attributeOffset, Sizeof(type))],
             name, type, count - 1)

\* The attribute sets doMesh() imports of a mesh, the attribute count and
\* stride it computes for them, and the attributes it then writes.
MeshAttributes(mesh, c) ==
    LET maxUvSets == unboundedIfNegative(c.maxUvSets)
        maxTangentSets == unboundedIfNegative(c.maxTangentSets)
        maxColorSets == unboundedIfNegative(c.maxColorSets)
        uvSetCount == UMin(Size(mesh.uv_sets), maxUvSets)
        colorSetCount == UMin(mesh.color_sets, maxColorSets)
        t == TangentSetCounts(mesh.uv_sets, 0,
                              UMin(uvSetCount, maxTangentSets))
        normals == IF mesh.vertex_normal THEN 1 ELSE 0
        attributeCount == 1 + normals + uvSetCount + t.tangentSetCount
                              + t.bitangentSetCount + colorSetCount
        stride == Sizeof("Vector3") + normals * Sizeof("Vector3")
                      + uvSetCount * Sizeof("Vector2")
                      + t.tangentSetCount * Sizeof("Vector3")
                      + t.bitangentSetCount * Sizeof("Vector3")
                      + colorSetCount * Sizeof("Color4")
        a == AppendAttributes(
                 AppendAttributes(
                     AppendAttributes(
                         AppendAttributes(
                             AppendAttributes(
                                 AppendAttributes(
                                     [attributeData |-> <<>>,
                                      attributeOffset |-> 0],
                                     "Position", "Vector3", 1),
                                 "Normal", "Vector3", normals),
                             "TextureCoordinates", "Vector2", uvSetCount),
                         "Tangent", "Vector3", t.tangentSetCount),
                     "Bitangent", "Vector3", t.bitangentSetCount),
                 "Color", "Color4", colorSetCount)
    IN  [uvSetCount |-> uvSetCount, colorSetCount |-> colorSetCount,
         tangentSetCount |-> t.tangentSetCount,
         bitangentSetCount |-> t.bitangentSetCount,
         attributeCount |-> attributeCount, stride |-> stride,
         attributeData |-> a.attributeData,
         attributeIndex |-> Len(a.attributeData),
         attributeOffset |-> a.attributeOffset]

\* doMesh(id, 0) up to the index count of the chunk and the layout of its
\* vertex attributes; AbstractImporter checks id against meshCount().  The
\* two assertions on the layout abort the program when they fail.
doMesh(id) ==
    /\ pc = "running"
    /\ state.opened
    /\ id < Size(state.meshChunks)
    /\ LET chunk == At(state.meshChunks, id)
           mesh == At(state.scene.meshes, chunk.meshId)
           mat == At(mesh.materials, chunk.meshMaterialIndex)
       IN  \E a \in {MeshAttributes(mesh, conf)} :
               /\ result' = [op |-> "mesh", id |-> id,
                             primitive |-> chunk.primitive,
                             indexCount |-> IndexCount(mat, chunk.primitive),
                             attributes |-> a,
                             asserted |->
                                 /\ a.attributeIndex = a.attributeCount
                                 /\ a.attributeOffset = a.stride]
               /\ pc' = IF /\ a.attributeIndex = a.attributeCount
                           /\ a.attributeOffset = a.stride
                        THEN "running" ELSE "aborted"
    /\ UNCHANGED <<conf, document, state, imageLog>>

doLightCount ==
    /\ pc = "running"
    /\ state.opened
    /\ result' = [op |-> "lightCount", value |-> Size(state.scene.lights)]
    /\ UNCHANGED <<conf, document, state, pc, imageLog>>

\* A decay chain without the cubic branch.
DecayAttenuationUnpatched(decay) ==
    [attenuation |-> IF decay = "UFBX_LIGHT_DECAY_NONE" THEN <<1, 0, 0>>
                     ELSE IF decay = "UFBX_LIGHT_DECAY_LINEAR"
                     THEN <<0, 1, 0>>
                     ELSE IF decay = "UFBX_LIGHT_DECAY_QUADRATIC"
                     THEN <<0, 0, 1>>
                     ELSE <<0, 0, 0>>,
     warnings |-> <<>>, out |-> <<>>]

\* The attenuation doLight() derives from the decay of the light and what
\* it prints while doing so; a Vector3 is zero until assigned.
DecayAttenuation(decay) ==
    IF decay = "UFBX_LIGHT_DECAY_NONE"
    THEN [attenuation |-> <<1, 0, 0>>, warnings |-> <<>>, out |-> <<>>]
    ELSE IF decay = "UFBX_LIGHT_DECAY_LINEAR"
    THEN [attenuation |-> <<0, 1, 0>>, warnings |-> <<>>, out |-> <<>>]
    ELSE IF decay = "UFBX_LIGHT_DECAY_QUADRATIC"
    THEN [attenuation |-> <<0, 0, 1>>, warnings |-> <<>>, out |-> <<>>]
    ELSE IF decay = "UFBX_LIGHT_DECAY_CUBIC"
    THEN [attenuation |-> <<0, 0, 1>>,
          warnings |-> <<<<"Trade::UfbxImporter::light(): cubic attenuation not supported, patching to quadratic">>>>,
          out |-> <<>>]
    ELSE [attenuation |-> <<0, 0, 0>>, warnings |-> <<>>,
          out |-> <<<<"Trade::UfbxImporter::light(): light decay", decay,
                      "is not supported">>>>]

\* doLight(id) up to the light type and the attenuation; AbstractImporter
\* checks id against lightCount().  Directional lights get the constant
\* attenuation, with a warning if the decay gave another one.
doLight(id) ==
    /\ pc = "running"
    /\ state.opened
    /\ id < Size(state.scene.lights)
    /\ LET light == At(state.scene.lights, id)
           d == DecayAttenuation(light.decay)
           patch == /\ light.type = "UFBX_LIGHT_DIRECTIONAL"
                    /\ d.attenuation # <<1, 0, 0>>
       IN  result' =
               IF light.type \in {"UFBX_LIGHT_POINT", "UFBX_LIGHT_DIRECTIONAL",
                                  "UFBX_LIGHT_SPOT"}
               THEN [op |-> "light", id |-> id, ok |-> TRUE, out |-> d.out,
                     value |-> light.type,
                     attenuation |-> IF patch THEN <<1, 0, 0>>
                                     ELSE d.attenuation,
                     warnings |->
                         d.warnings \o
                         (IF patch
                          THEN <<<<"Trade::UfbxImporter::light(): patching attenuation",
                                   d.attenuation, "to", <<1, 0, 0>>, "for",
                                   "Trade::LightData::Type::Directional">>>>
                          ELSE <<>>)]
               ELSE [op |-> "light", id |-> id, ok |-> FALSE,
                     out |-> <<<<"Trade::UfbxImporter::light(): light type",
                                 light.type, "is not supported">>>>,
                     value |-> "none", attenuation |-> <<0, 0, 0>>,
                     warnings |-> <<>>]
    /\ UNCHANGED <<conf, document, state, pc, imageLog>>

doTextureCount ==
    /\ pc = "running"
    /\ state.opened
    /\ result' = [op |-> "textureCount", value |-> Size(state.textures)]
    /\ UNCHANGED <<conf, document, state, pc, imageLog>>

\* doTextureForName(name): ufbx_find_element_len() yields some texture of
\* that name, or none.
doTextureForName(name) ==
    /\ pc = "running"
    /\ state.opened
    /\ \/ /\ \A k \in Indices(state.scene.textures) :
                 At(state.scene.textures, k).name # name
          /\ result' = [op |-> "textureForName", name |-> name,
                        element |-> 0 - 1, value |-> 0 - 1]
       \/ \E k \in Indices(state.scene.textures) :
             /\ At(state.scene.textures, k).name = name
             /\ result' = [op |-> "textureForName", name |-> name,
                           element |-> k, value |-> At(state.textureRemap, k)]
    /\ UNCHANGED <<conf, document, state, pc, imageLog>>

\* doTextureName(id): AbstractImporter checks id against textureCount().
doTextureName(id) ==
    /\ pc = "running"
    /\ state.opened
    /\ id < Size(state.textures)
    /\ LET fileTexture == At(state.textures, id)
       IN  result' = [op |-> "textureName", id |-> id,
                      value |-> At(state.scene.textures, fileTexture.textureIndex).name]
    /\ UNCHANGED <<conf, document, state, pc, imageLog>>

\* configuration().setValue(): the configuration group of the plugin can be
\* written at any time, also while a file is opened.
setConfiguration(c) ==
    /\ pc = "running"
    /\ c # conf
    /\ conf' = c
    /\ UNCHANGED <<document, state, result, pc, imageLog>>

\* An image lookup that leaves the cache as it found it and returns nothing.
setupImporterWithoutRecording(st, id, errorPrefix) ==
    [state |-> st, importer |-> FALSE, out |-> <<>>, attempt |-> TRUE]

ReuseImporterNever(st, id) == FALSE

\* Whether the cached image importer serves image id.
ReuseImporter(st, id) == st.imageImporterId = id

\* setupOrReuseImporterForImage(id, errorPrefix) without a file callback:
\* the state it leaves, whether it returns an importer, what it prints and
\* whether it made the image importer open the image.
setupOrReuseImporterForImage(st, id, errorPrefix) ==
    LET file == At(st.scene.texture_files, id)
        reset == [st EXCEPT !.imageImporter = FALSE, !.imageImporterId = id]
    IN  IF ReuseImporter(st, id)
        THEN [state |-> st, importer |-> st.imageImporter, out |-> <<>>,
              attempt |-> FALSE]
        ELSE IF ~file.embedded /\ ~st.fromFile
        THEN [state |-> reset, importer |-> FALSE,
              out |-> <<errorPrefix, "external images can be imported only when opening files from the filesystem or if a file callback is present">>,
              attempt |-> FALSE]
        ELSE IF ~file.opens
        THEN [state |-> reset, importer |-> FALSE, out |-> <<>>,
              attempt |-> TRUE]
        ELSE IF file.image2DCount # 1
        THEN [state |-> reset, importer |-> FALSE,
              out |-> <<errorPrefix, "expected exactly one 2D image in an image file but got", file.image2DCount>>,
              attempt |-> TRUE]
        ELSE [state |-> [reset EXCEPT !.imageImporter = TRUE],
              importer |-> TRUE, out |-> <<>>, attempt |-> TRUE]

doImage2DCount ==
    /\ pc = "running"
    /\ state.opened
    /\ result' = [op |-> "image2DCount",
                  value |-> Size(state.scene.texture_files)]
    /\ UNCHANGED <<conf, document, state, pc, imageLog>>

\* doImage2DLevelCount(id): AbstractImporter checks id against
\* image2DCount().
doImage2DLevelCount(id) ==
    /\ pc = "running"
    /\ state.opened
    /\ id < Size(state.scene.texture_files)
    /\ Len(imageLog) < MaxImageQueries
    /\ LET s == setupOrReuseImporterForImage(
                    state, id, "Trade::UfbxImporter::image2DLevelCount():")
       IN  /\ state' = s.state
           /\ result' = [op |-> "image2DLevelCount", id |-> id, out |-> s.out,
                         value |-> IF ~s.importer THEN 1
                                   ELSE At(state.scene.texture_files, id).levels]
           /\ imageLog' = Append(imageLog, [id |-> id, attempt |-> s.attempt,
                                            importer |-> s.importer,
                                            out |-> s.out])
    /\ UNCHANGED <<conf, document, pc>>

\* doImage2D(id, 0): the image is present iff an importer was returned.
doImage2D(id) ==
    /\ pc = "running"
    /\ state.opened
    /\ id < Size(state.scene.texture_files)
    /\ Len(imageLog) < MaxImageQueries
    /\ LET s == setupOrReuseImporterForImage(
                    state, id, "Trade::UfbxImporter::image2D():")
       IN  /\ state' = s.state
           /\ result' = [op |-> "image2D", id |-> id, out |-> s.out,
                         ok |-> s.importer]
           /\ imageLog' = Append(imageLog, [id |-> id, attempt |-> s.attempt,
                                            importer |-> s.importer,
                                            out |-> s.out])
    /\ UNCHANGED <<conf, document, pc>>

(***************************************************************************)
(* CgltfImporter.  In the specifications of this importer, state is the    *)
(* Document _d, conf the configuration of the importer, document the last  *)
(* open call, and a glTF file is the record                                *)
(*                                                                         *)
(*   [result, minVersion, version, extensionsRequired, parents, meshes,    *)
(*    cameras, lights, textures, images]                                   *)
(*                                                                         *)
(* of what cgltf_parse() returns for its bytes: the parse result, the      *)
(* asset versions as character sequences (<<>> when absent), the required  *)
(* extensions, the parent of every node (-1 for none), the primitive       *)
(* count of every mesh, and the cameras, lights, textures and images.      *)
(***************************************************************************)
NoVersion == <<>>

hasPrefixAlways(s, prefix) == TRUE

hasPrefix(s, prefix) ==
    Len(s) >= Len(prefix) /\ SubSeq(s, 1, Len(prefix)) = prefix

supportedExtensions ==
    {"KHR_lights_punctual", "KHR_materials_clearcoat",
     "KHR_materials_pbrSpecularGlossiness", "KHR_materials_unlit",
     "KHR_mesh_quantization", "KHR_texture_basisu", "KHR_texture_transform",
     "GOOGLE_texture_basis", "MSFT_texture_dds"}

\* The text doOpenData prints for a cgltf_result other than success.
ParseError(r) ==
    CASE r = "cgltf_result_out_of_memory" -> "out of memory"
      [] r = "cgltf_result_unknown_format" -> "unknown binary glTF format"
      [] r = "cgltf_result_invalid_json" -> "invalid JSON"
      [] r = "cgltf_result_invalid_gltf" ->
             "invalid glTF, usually caused by invalid indices or missing required attributes"
      [] r = "cgltf_result_legacy_gltf" -> "legacy glTF version"
      [] r = "cgltf_result_data_too_short" -> "data too short"

NoData == [result |-> "none"]

\* A null _d.
NullDocument ==
    [null |-> TRUE,
     filePath |-> <<>>,
     data |-> NoData,
     meshMap |-> <<>>,
     meshSizeOffsets |-> <<>>,
     camerasForName |-> <<>>,
     meshesForName |-> <<>>,
     open |-> FALSE,
     imageImporterId |-> NoImage,
     imageImporter |-> FALSE]

\* new Document.
NewDocument == [NullDocument EXCEPT !.null = FALSE]

CgltfImporter_doIsOpened(d) == ~d.null /\ d.open

\* The parent of node p; -1 stands for a null node pointer.
ParentOf(parents, p) == IF p = NoParent THEN NoParent ELSE At(parents, p)

\* The while loop of the cycle search: TRUE iff it finds p1 == p2.
RECURSIVE CycleLoop(_, _, _)
CycleLoop(parents, p1, p2) ==
    IF p1 = NoParent \/ p2 = NoParent THEN FALSE
    ELSE IF p1 = p2 THEN TRUE
    ELSE CycleLoop(parents, ParentOf(parents, p1),
                   IF ParentOf(parents, p2) # NoParent
                   THEN ParentOf(parents, ParentOf(parents, p2))
                   ELSE NoParent)

CycleStartingAtFirstStep(parents, i) ==
    LET p1 == At(parents, i)
    IN  p1 # NoParent /\ p1 = ParentOf(parents, p1)

CycleStartingAt(parents, i) ==
    LET p1 == At(parents, i)
    IN  CycleLoop(parents, p1, ParentOf(parents, p1))

\* The node the cycle search reports: the first i whose loop finds a
\* cycle, or -1.
RECURSIVE FindCycle(_, _)
FindCycle(parents, i) ==
    IF i = Len(parents) THEN 0 - 1
    ELSE IF CycleStartingAt(parents, i) THEN i
    ELSE FindCycle(parents, i + 1)

MeshMapFirstPrimitives(meshes, i) == [k \in 1 .. i |-> <<k - 1, 0>>]

\* The mesh map loop: one entry (mesh, primitive) per primitive.
RECURSIVE MeshMap(_, _)
MeshMap(meshes, i) ==
    IF i = 0 THEN <<>>
    ELSE MeshMap(meshes, i - 1)
             \o [j \in 1 .. At(meshes, i - 1) |-> <<i - 1, j - 1>>]

MeshSizeOffsets(meshes) ==
    [k \in 1 .. (Len(meshes) + 1) |-> Len(MeshMap(meshes, k - 1))]

Unsupported(file) ==
    SelectSeq(file.extensionsRequired, LAMBDA e : e \notin supportedExtensions)

Diagnostic(level, text) == [level |-> level, text |-> text]

\* CgltfImporter::doOpenData on the Document d0 (null or left by
\* doOpenFile): the Document it leaves and what it prints.
CgltfImporter_doOpenData(d0, file, c) ==
    LET d == IF d0.null THEN NewDocument ELSE d0
        closed(text) ==
            [d |-> NullDocument, out |-> <<Diagnostic("Error", text)>>]
        cycle == FindCycle(file.parents, 0)
    IN  IF file.result # "cgltf_result_success"
        THEN closed(<<"Trade::CgltfImporter::openData(): error opening file:",
                      ParseError(file.result)>>)
        ELSE IF file.minVersion # NoVersion /\ file.minVersion # <<"2", ".", "0">>
        THEN closed(<<"Trade::CgltfImporter::openData(): unsupported minVersion",
                      file.minVersion, ", expected 2.0">>)
        ELSE IF file.version # NoVersion /\ ~hasPrefix(file.version, <<"2", ".">>)
        THEN closed(<<"Trade::CgltfImporter::openData(): unsupported version",
                      file.version, ", expected 2.x">>)
        ELSE IF Unsupported(file) # <<>> /\ ~c.ignoreRequiredExtensions
        THEN closed(<<"Trade::CgltfImporter::openData(): required extension",
                      Unsupported(file)[1], "not supported">>)
        ELSE IF cycle # 0 - 1
        THEN [d |-> NullDocument,
              out |-> [k \in DOMAIN Unsupported(file) |->
                          Diagnostic("Warning",
                              <<"Trade::CgltfImporter::openData(): required extension",
                                Unsupported(file)[k], "not supported">>)]
                      \o <<Diagnostic("Error",
                              <<"Trade::CgltfImporter::openData(): node tree contains cycle starting at node",
                                cycle>>)>>]
        ELSE [d |-> [d EXCEPT !.data = file,
                              !.meshMap = MeshMap(file.meshes, Len(file.meshes)),
                              !.meshSizeOffsets = MeshSizeOffsets(file.meshes),
                              !.open = TRUE],
              out |-> [k \in DOMAIN Unsupported(file) |->
                          Diagnostic("Warning",
                              <<"Trade::CgltfImporter::openData(): required extension",
                                Unsupported(file)[k], "not supported">>)]]

\* A path no file can be read from.
Unreadable == [result |-> "unreadable"]

\* CgltfImporter::doOpenFile with AbstractImporter::doOpenFile, which reads
\* the file and hands its bytes to doOpenData; filename is <<directory,
\* name>>.
CgltfImporter_doOpenFile(filename, file, c) ==
    LET d == [NewDocument EXCEPT !.filePath = <<filename[1]>>]
    IN  IF file = Unreadable
        THEN [d |-> d,
              out |-> <<Diagnostic("Error",
                          <<"Trade::AbstractImporter::openFile(): cannot open file",
                            filename>>)>>]
        ELSE CgltfImporter_doOpenData(d, file, c)

\* AbstractImporter::close(): doClose() if a file is opened.
CloseIfOpened(d) ==
    IF CgltfImporter_doIsOpened(d) THEN NullDocument ELSE d

NoCall == [op |-> "none"]

\* AbstractImporter::openData(): close(), then doOpenData().
CgltfImporter_openData(file) ==
    /\ pc = "running"
    /\ LET o == CgltfImporter_doOpenData(CloseIfOpened(state), file, conf)
       IN  /\ state' = o.d
           /\ result' = [op |-> "openData",
                         ok |-> CgltfImporter_doIsOpened(o.d), out |-> o.out]
    /\ document' = [op |-> "openData", file |-> file, filename |-> <<>>]
    /\ imageLog' = <<>>
    /\ UNCHANGED <<conf, pc>>

\* AbstractImporter::openFile(): close(), then doOpenFile().
CgltfImporter_openFile(filename, file) ==
    /\ pc = "running"
    /\ LET o == CgltfImporter_doOpenFile(filename, file, conf)
       IN  /\ state' = o.d
           /\ result' = [op |-> "openFile",
                         ok |-> CgltfImporter_doIsOpened(o.d), out |-> o.out]
    /\ document' = [op |-> "openFile", file |-> file, filename |-> filename]
    /\ imageLog' = <<>>
    /\ UNCHANGED <<conf, pc>>

\* AbstractImporter::close().
CgltfImporter_close ==
    /\ pc = "running"
    /\ CgltfImporter_doIsOpened(state)
    /\ state' = NullDocument
    /\ document' = NoCall
    /\ result' = [op |-> "close"]
    /\ imageLog' = <<>>
    /\ UNCHANGED <<conf, pc>>

\* CgltfImporter::doCameraForName: builds the name map on first use; of
\* cameras of one name the map keeps the first.
CgltfImporter_doCameraForName(name) ==
    /\ pc = "running"
    /\ CgltfImporter_doIsOpened(state)
    /\ LET map == [k \in DOMAIN state.data.cameras |-> state.data.cameras[k].name]
           found == {k \in DOMAIN map : map[k] = name}
       IN  /\ state' = [state EXCEPT !.camerasForName = <<map>>]
           /\ result' = [op |-> "cameraForName", name |-> name,
                         value |-> IF found = {} THEN 0 - 1
                                   ELSE (CHOOSE k \in found :
                                            \A j \in found : k <= j) - 1]
    /\ UNCHANGED <<conf, document, pc, imageLog>>

\* CgltfImporter::setupOrReuseImporterForImage(id, errorPrefix) without a
\* file callback, for images that carry a base64 data URI ("data") or the
\* URI of an external file ("external").
CgltfImporter_setupOrReuseImporterForImage(d, id, errorPrefix) ==
    LET image == At(d.data.images, id)
        reset == [d EXCEPT !.imageImporter = FALSE, !.imageImporterId = id]
    IN  IF ReuseImporter(d, id)
        THEN [state |-> d, importer |-> d.imageImporter, out |-> <<>>,
              attempt |-> FALSE]
        ELSE IF image.uri = "external" /\ d.filePath = <<>>
        THEN [state |-> reset, importer |-> FALSE,
              out |-> <<Diagnostic("Error", <<errorPrefix, "external images can be imported only when opening files from the filesystem or if a file callback is present">>)>>,
              attempt |-> FALSE]
        ELSE IF ~image.opens
        THEN [state |-> reset, importer |-> FALSE, out |-> <<>>,
              attempt |-> TRUE]
        ELSE [state |-> [reset EXCEPT !.imageImporter = TRUE],
              importer |-> TRUE, out |-> <<>>, attempt |-> TRUE]

CgltfImporter_doMeshCount ==
    /\ pc = "running"
    /\ CgltfImporter_doIsOpened(state)
    /\ result' = [op |-> "meshCount", value |-> Size(state.meshMap)]
    /\ UNCHANGED <<conf, document, state, pc, imageLog>>

\* doMeshForName: the map from names to the first reported id of a mesh is
\* built at the first call, emplace keeps the first mesh of a name.
CgltfImporter_doMeshForName(name) ==
    /\ pc = "running"
    /\ CgltfImporter_doIsOpened(state)
    /\ LET map == IF state.meshesForName # <<>> THEN state.meshesForName[1]
                  ELSE [i \in DOMAIN state.data.meshNames |->
                           <<state.data.meshNames[i],
                             At(state.meshSizeOffsets, i - 1)>>]
           found == {i \in DOMAIN map : map[i][1] = name}
       IN  /\ state' = [state EXCEPT !.meshesForName = <<map>>]
           /\ result' = [op |-> "meshForName", name |-> name,
                         value |-> IF found = {} THEN 0 - 1
                                   ELSE map[CHOOSE i \in found :
                                                \A j \in found : i <= j][2]]
    /\ UNCHANGED <<conf, document, pc, imageLog>>

\* CgltfImporter::doImage2DLevelCount(id) and doImage2D(id, 0):
\* AbstractImporter checks id against image2DCount().
CgltfImporter_doImage2DLevelCount(id) ==
    /\ pc = "running"
    /\ CgltfImporter_doIsOpened(state)
    /\ id < Size(state.data.images)
    /\ Len(imageLog) < MaxImageQueries
    /\ LET s == CgltfImporter_setupOrReuseImporterForImage(
                    state, id, "Trade::CgltfImporter::image2DLevelCount():")
       IN  /\ state' = s.state
           /\ result' = [op |-> "image2DLevelCount", id |-> id, out |-> s.out,
                         value |-> IF ~s.importer THEN 1
                                   ELSE At(state.data.images, id).levels]
           /\ imageLog' = Append(imageLog, [id |-> id, attempt |-> s.attempt,
                                            importer |-> s.importer,
                                            out |-> s.out])
    /\ UNCHANGED <<conf, document, pc>>

CgltfImporter_doImage2D(id) ==
    /\ pc = "running"
    /\ CgltfImporter_doIsOpened(state)
    /\ id < Size(state.data.images)
    /\ Len(imageLog) < MaxImageQueries
    /\ LET s == CgltfImporter_setupOrReuseImporterForImage(
                    state, id, "Trade::CgltfImporter::image2D():")
       IN  /\ state' = s.state
           /\ result' = [op |-> "image2D", id |-> id, out |-> s.out,
                         ok |-> s.importer]
           /\ imageLog' = Append(imageLog, [id |-> id, attempt |-> s.attempt,
                                            importer |-> s.importer,
                                            out |-> s.out])
    /\ UNCHANGED <<conf, document, pc>>

\* Constants::inf(), the range of a light without one.
Infinity == 2147483647

\* CgltfImporter::doCamera(id) up to the camera type.
CgltfImporter_doCamera(id) ==
    /\ pc = "running"
    /\ CgltfImporter_doIsOpened(state)
    /\ id < Size(state.data.cameras)
    /\ LET camera == At(state.data.cameras, id)
       IN  result' =
               IF camera.type = "cgltf_camera_type_perspective"
               THEN [op |-> "camera", id |-> id, ok |-> TRUE, out |-> <<>>,
                     value |-> "CameraType::Perspective3D"]
               ELSE IF camera.type = "cgltf_camera_type_orthographic"
               THEN [op |-> "camera", id |-> id, ok |-> TRUE, out |-> <<>>,
                     value |-> "CameraType::Orthographic3D"]
               ELSE [op |-> "camera", id |-> id, ok |-> FALSE,
                     out |-> <<Diagnostic("Error",
                                 <<"Trade::CgltfImporter::camera(): invalid camera type">>)>>,
                     value |-> "none"]
    /\ UNCHANGED <<conf, document, state, pc, imageLog>>

ConeAnglesNeverOutOfBounds(inner, outer) == FALSE

\* The cone angle test of doLight, angles in degrees.
ConeAnglesOutOfBounds(inner, outer) ==
    inner < 0 \/ inner >= outer \/ outer >= 90

\* What CgltfImporter::doLight returns and prints for a light: the type,
\* the range and the doubled cone angles.
LightOf(light) ==
    LET failed(text) ==
            [ok |-> FALSE, out |-> <<Diagnostic("Error", text)>>,
             value |-> <<>>]
        range == IF light.range = 0 THEN Infinity ELSE light.range
        spot == light.type = "cgltf_light_type_spot"
        innerConeAngle == IF spot THEN light.spot_inner_cone_angle ELSE 180
        outerConeAngle == IF spot THEN light.spot_outer_cone_angle ELSE 180
    IN  IF light.type \notin {"cgltf_light_type_point", "cgltf_light_type_spot",
                              "cgltf_light_type_directional"}
        THEN failed(<<"Trade::CgltfImporter::light(): invalid light type">>)
        ELSE IF spot /\ ConeAnglesOutOfBounds(innerConeAngle, outerConeAngle)
        THEN failed(<<"Trade::CgltfImporter::light(): inner and outer cone angle",
                      innerConeAngle, "and", outerConeAngle,
                      "out of allowed bounds">>)
        ELSE IF light.type = "cgltf_light_type_directional" /\ range # Infinity
        THEN failed(<<"Trade::CgltfImporter::light(): range can't be defined for a directional light">>)
        ELSE [ok |-> TRUE, out |-> <<>>,
              value |-> <<light.type, range, innerConeAngle * 2,
                          outerConeAngle * 2>>]

CgltfImporter_doLight(id) ==
    /\ pc = "running"
    /\ CgltfImporter_doIsOpened(state)
    /\ id < Size(state.data.lights)
    /\ LET l == LightOf(At(state.data.lights, id))
       IN  result' = [op |-> "light", id |-> id, ok |-> l.ok, out |-> l.out,
                      value |-> l.value]
    /\ UNCHANGED <<conf, document, state, pc, imageLog>>

\* The "source" an extension object of a texture gives: the last of its
\* "source" keys, none (<<>>) without one.
SourceOf(extension) ==
    IF extension.sources = <<>> THEN <<>>
    ELSE <<extension.sources[Len(extension.sources)]>>

\* The extension loop of doTexture from extension i on: the image id found
\* (NoImage for none) or the out-of-bounds source that ends the call.
RECURSIVE ExtensionLoop(_, _, _)
ExtensionLoop(tex, images_count, i) ==
    IF i = Size(tex.extensions)
    THEN [ok |-> TRUE, imageId |-> NoImage, out |-> <<>>]
    ELSE LET extension == At(tex.extensions, i)
             source == SourceOf(extension)
         IN  IF extension.name \in {"GOOGLE_texture_basis", "MSFT_texture_dds"}
                    /\ source # <<>>
             THEN IF source[1] < 0 \/ source[1] >= images_count
                  THEN [ok |-> FALSE, imageId |-> NoImage,
                        out |-> <<Diagnostic("Error",
                                    <<"Trade::CgltfImporter::texture():",
                                      extension.name, "image", source[1],
                                      "out of bounds for", images_count,
                                      "images">>)>>]
                  ELSE [ok |-> TRUE, imageId |-> source[1], out |-> <<>>]
             ELSE ExtensionLoop(tex, images_count, i + 1)

\* What CgltfImporter::doTexture returns and prints for a texture, up to
\* the image id; basisu and image are image ids, -1 for none.
TextureOf(tex, images_count) ==
    LET found == IF tex.basisu # 0 - 1
                 THEN [ok |-> TRUE, imageId |-> tex.basisu, out |-> <<>>]
                 ELSE ExtensionLoop(tex, images_count, 0)
    IN  IF ~found.ok THEN found
        ELSE IF found.imageId # NoImage THEN found
        ELSE IF tex.image # 0 - 1
        THEN [ok |-> TRUE, imageId |-> tex.image, out |-> <<>>]
        ELSE [ok |-> FALSE, imageId |-> NoImage,
              out |-> <<Diagnostic("Error",
                          <<"Trade::CgltfImporter::texture(): no image source found">>)>>]

CgltfImporter_doTexture(id) ==
    /\ pc = "running"
    /\ CgltfImporter_doIsOpened(state)
    /\ id < Size(state.data.textures)
    /\ LET t == TextureOf(At(state.data.textures, id), Size(state.data.images))
       IN  result' = [op |-> "texture", id |-> id, ok |-> t.ok, out |-> t.out,
                      value |-> t.imageId]
    /\ UNCHANGED <<conf, document, state, pc, imageLog>>

\* Range1Dui.
Range1D(min, max) == [min |-> min, max |-> max]

\* The one element of a singleton set: the loops below bind each
\* iteration's variables to values with it.
TheOne(S) == CHOOSE x \in S : TRUE

\* The object and child-range gathering of doScene. st holds the objects
\* and children arrays, the capacity of children and whether children was
\* reallocated while nodeRangeToProcess referred to one of its elements;
\* from then on the reference dangles and reads of its max() give the
\* arbitrary value garbage. outOfBounds is set when objects[j] is read past
\* the end of objects.
RECURSIVE ChildRangeLoop(_, _, _, _, _, _)
RECURSIVE NodeRangeLoop(_, _, _, _)
ChildRangeLoop(data, st, i, j, max, garbage) ==
    IF j = max THEN NodeRangeLoop(data, st, i + 1, garbage)
    ELSE IF j >= Size(st.objects) THEN [st EXCEPT !.outOfBounds = TRUE]
    ELSE LET node == At(data.nodes, At(st.objects, j))
             grows == Size(st.children) = st.capacity
         IN  TheOne({ChildRangeLoop(data, appended, i, j + 1, held, garbage) :
                 appended \in
                     {[objects |-> st.objects \o node.children,
                       children |->
                           Append(st.children,
                                  Range1D(Size(st.objects),
                                          Size(st.objects)
                                              + Size(node.children))),
                       capacity |-> IF grows THEN 2 * st.capacity
                                    ELSE st.capacity,
                       dangling |-> st.dangling \/ grows,
                       outOfBounds |-> FALSE]},
                 held \in {IF grows THEN garbage ELSE max}})

NodeRangeLoop(data, st, i, garbage) ==
    IF i = Size(st.children) THEN st
    ELSE ChildRangeLoop(data, st, i, At(st.children, i).min,
                        At(st.children, i).max, garbage)

GatherObjects(data, scene, garbage) ==
    NodeRangeLoop(data,
                  [objects |-> scene.nodes,
                   children |-> <<Range1D(0, Size(scene.nodes))>>,
                   capacity |-> Size(data.nodes) + 1,
                   dangling |-> FALSE,
                   outOfBounds |-> FALSE],
                  0, garbage)

\* The child ranges that write parents[j], in the order they write it.
RangesOver(children, j) ==
    SelectSeq([i \in 1 .. Len(children) |-> i - 1],
              LAMBDA i : At(children, i).min <= j /\ j < At(children, i).max)

\* Parent synthesis: parents[j] as the last child range containing j leaves
\* it, Garbage where no range contains j.
SynthesizeParents(objects, children) ==
    [k \in 1 .. Len(objects) |->
        LET over == RangesOver(children, k - 1)
        IN  IF over = <<>> THEN Garbage
            ELSE LET parent == over[Len(over)] - 1
                 IN  IF parent = 0 - 1 THEN 0 - 1
                     ELSE IF parent >= Size(objects) THEN Garbage
                     ELSE At(objects, parent)]

\* Math::max(objects).
MaxOf(objects) ==
    CHOOSE m \in {objects[k] : k \in DOMAIN objects} :
        \A k \in DOMAIN objects : objects[k] <= m

\* node.mesh->primitives_count, 0 without a mesh.
PrimitivesOf(data, node) ==
    IF node.mesh = 0 - 1 THEN 0 ELSE At(data.meshes, node.mesh)

HasTrs(node) == node.has_translation \/ node.has_rotation \/ node.has_scale

\* The count pass of doScene over the gathered objects, from object k on.
RECURSIVE CountPass(_, _, _, _)
CountPass(data, objects, k, acc) ==
    IF k = Size(objects) THEN acc
    ELSE LET node == At(data.nodes, At(objects, k))
             materials == IF node.mesh = 0 - 1 THEN <<>>
                          ELSE At(data.primitiveMaterials, node.mesh)
         IN  TheOne({CountPass(data, objects, k + 1, next) : next \in {
                 [transformationCount |->
                      acc.transformationCount
                          + (IF HasTrs(node) \/ node.has_matrix THEN 1 ELSE 0),
                  trsCount |-> acc.trsCount + (IF HasTrs(node) THEN 1 ELSE 0),
                  hasTranslations |-> acc.hasTranslations \/ node.has_translation,
                  hasRotations |-> acc.hasRotations \/ node.has_rotation,
                  hasScalings |-> acc.hasScalings \/ node.has_scale,
                  meshCount |-> acc.meshCount + PrimitivesOf(data, node),
                  hasMeshMaterials |->
                      acc.hasMeshMaterials
                          \/ \E j \in DOMAIN materials : materials[j] # 0 - 1,
                  lightCount |-> acc.lightCount
                                     + (IF node.light # 0 - 1 THEN 1 ELSE 0),
                  cameraCount |-> acc.cameraCount
                                      + (IF node.camera # 0 - 1 THEN 1 ELSE 0),
                  skinCount |-> acc.skinCount
                                    + (IF node.skin # 0 - 1 THEN 1 ELSE 0)]}})

\* The sizes the output arrays are allocated with: the counts, with the
\* combined transformation dropped if every transformed object has TRS.
NoCounts ==
    [transformationCount |-> 0, trsCount |-> 0, hasTranslations |-> FALSE,
     hasRotations |-> FALSE, hasScalings |-> FALSE, meshCount |-> 0,
     hasMeshMaterials |-> FALSE, lightCount |-> 0, cameraCount |-> 0,
     skinCount |-> 0]

SceneCountsKept(data, objects) == CountPass(data, objects, 0, NoCounts)

SceneCounts(data, objects) ==
    LET c == CountPass(data, objects, 0, NoCounts)
    IN  IF c.trsCount = c.transformationCount
        THEN [c EXCEPT !.transformationCount = 0]
        ELSE c

\* The mesh reference loop of the fill pass for object i, from primitive
\* j on.
RECURSIVE MeshReferenceLoop(_, _, _, _, _, _)
MeshReferenceLoop(d, node, i, j, c, t) ==
    IF j = PrimitivesOf(d.data, node) THEN t
    ELSE LET material == At(At(d.data.primitiveMaterials, node.mesh), j)
             o == t.meshMaterialOffset
         IN  TheOne({MeshReferenceLoop(d, node, i, j + 1, c, next) : next \in {
                 [t EXCEPT
                      !.meshMaterialObjects = Store(@, o, i),
                      !.meshes =
                          Store(@, o, At(d.meshSizeOffsets, node.mesh) + j),
                      !.meshMaterials =
                          IF c.hasMeshMaterials THEN Store(@, o, material)
                          ELSE @,
                      !.outOfBounds =
                          @ \/ ~InBounds(t.meshes, o)
                            \/ (c.hasMeshMaterials
                                    /\ ~InBounds(t.meshMaterials, o)),
                      !.meshMaterialOffset = o + 1]}})

\* The fill pass of doScene from object k on; t holds the output arrays,
\* the offsets and whether a write went out of bounds.
RECURSIVE FillPass(_, _, _, _, _)
FillPass(d, objects, k, c, t) ==
    IF k = Size(objects) THEN t
    ELSE LET i == At(objects, k)
             node == At(d.data.nodes, i)
             transformed == (node.has_matrix \/ HasTrs(node))
                                /\ c.transformationCount # 0
             t1 == IF transformed
                   THEN [t EXCEPT
                            !.transformationObjects =
                                Store(@, t.transformationOffset, i),
                            !.outOfBounds =
                                @ \/ ~InBounds(t.transformationObjects,
                                               t.transformationOffset),
                            !.transformationOffset = @ + 1]
                   ELSE t
             t2 == IF HasTrs(node)
                   THEN [t1 EXCEPT
                            !.translations =
                                IF c.hasTranslations
                                THEN Store(@, t1.trsOffset, i) ELSE @,
                            !.rotations =
                                IF c.hasRotations
                                THEN Store(@, t1.trsOffset, i) ELSE @,
                            !.scalings =
                                IF c.hasScalings
                                THEN Store(@, t1.trsOffset, i) ELSE @,
                            !.trsObjects = Store(@, t1.trsOffset, i),
                            !.outOfBounds =
                                @ \/ ~InBounds(t1.trsObjects, t1.trsOffset),
                            !.trsOffset = @ + 1]
                   ELSE t1
             t3 == IF node.mesh # 0 - 1
                   THEN MeshReferenceLoop(d, node, i, 0, c, t2)
                   ELSE t2
             t4 == IF node.light # 0 - 1
                   THEN [t3 EXCEPT
                            !.lightObjects = Store(@, t3.lightOffset, i),
                            !.lights = Store(@, t3.lightOffset, node.light),
                            !.outOfBounds =
                                @ \/ ~InBounds(t3.lights, t3.lightOffset),
                            !.lightOffset = @ + 1]
                   ELSE t3
             t5 == IF node.camera # 0 - 1
                   THEN [t4 EXCEPT
                            !.cameraObjects = Store(@, t4.cameraOffset, i),
                            !.cameras = Store(@, t4.cameraOffset, node.camera),
                            !.outOfBounds =
                                @ \/ ~InBounds(t4.cameras, t4.cameraOffset),
                            !.cameraOffset = @ + 1]
                   ELSE t4
             t6 == IF node.skin # 0 - 1
                   THEN [t5 EXCEPT
                            !.skinObjects = Store(@, t5.skinOffset, i),
                            !.skins = Store(@, t5.skinOffset, node.skin),
                            !.outOfBounds =
                                @ \/ ~InBounds(t5.skins, t5.skinOffset),
                            !.skinOffset = @ + 1]
                   ELSE t5
         IN  TheOne({FillPass(d, objects, k + 1, c, next) : next \in {t6}})

\* The output arrays as allocated (NoInit) for the counts c, filled.
SceneArrays(d, objects, c) ==
    FillPass(d, objects, 0, c,
        [transformationObjects |-> Filled(c.transformationCount, Garbage),
         trsObjects |-> Filled(c.trsCount, Garbage),
         translations |->
             Filled(IF c.hasTranslations THEN c.trsCount ELSE 0, Garbage),
         rotations |->
             Filled(IF c.hasRotations THEN c.trsCount ELSE 0, Garbage),
         scalings |->
             Filled(IF c.hasScalings THEN c.trsCount ELSE 0, Garbage),
         meshMaterialObjects |-> Filled(c.meshCount, Garbage),
         meshes |-> Filled(c.meshCount, Garbage),
         meshMaterials |->
             Filled(IF c.hasMeshMaterials THEN c.meshCount ELSE 0, Garbage),
         lightObjects |-> Filled(c.lightCount, Garbage),
         lights |-> Filled(c.lightCount, Garbage),
         cameraObjects |-> Filled(c.cameraCount, Garbage),
         cameras |-> Filled(c.cameraCount, Garbage),
         skinObjects |-> Filled(c.skinCount, Garbage),
         skins |-> Filled(c.skinCount, Garbage),
         transformationOffset |-> 0, trsOffset |-> 0,
         meshMaterialOffset |-> 0, lightOffset |-> 0, cameraOffset |-> 0,
         skinOffset |-> 0, outOfBounds |-> FALSE])

\* The assertion after the fill loop.
OffsetsMatch(t) ==
    /\ t.transformationOffset = Size(t.transformationObjects)
    /\ t.trsOffset = Size(t.trsObjects)
    /\ t.meshMaterialOffset = Size(t.meshMaterialObjects)
    /\ t.lightOffset = Size(t.lightObjects)
    /\ t.cameraOffset = Size(t.cameraObjects)
    /\ t.skinOffset = Size(t.skinObjects)

\* The fields of the SceneData, in the order doScene appends them.
CgltfSceneFields(c) ==
    <<"Parent">>
        \o (IF c.transformationCount # 0 THEN <<"Transformation">> ELSE <<>>)
        \o (IF c.hasTranslations THEN <<"Translation">> ELSE <<>>)
        \o (IF c.hasRotations THEN <<"Rotation">> ELSE <<>>)
        \o (IF c.hasScalings THEN <<"Scaling">> ELSE <<>>)
        \o (IF c.transformationCount = 0 /\ c.trsCount = 0
            THEN <<"Transformation">> ELSE <<>>)
        \o (IF c.meshCount # 0 THEN <<"Mesh">> ELSE <<>>)
        \o (IF c.hasMeshMaterials THEN <<"MeshMaterial">> ELSE <<>>)
        \o (IF c.lightCount # 0 THEN <<"Light">> ELSE <<>>)
        \o (IF c.cameraCount # 0 THEN <<"Camera">> ELSE <<>>)
        \o (IF c.skinCount # 0 THEN <<"Skin">> ELSE <<>>)

\* CgltfImporter::doScene(id). Reading objects[j] past the end of objects
\* has no defined outcome (undefined is set and nothing else is modelled);
\* the value read through a dangling nodeRangeToProcess is any garbage.
CgltfImporter_doScene(id, garbage) ==
    /\ pc = "running"
    /\ CgltfImporter_doIsOpened(state)
    /\ id < Size(state.data.scenes)
    /\ \E g \in {GatherObjects(state.data, At(state.data.scenes, id), garbage)} :
       \E c \in {SceneCounts(state.data, g.objects)} :
       \E t \in {SceneArrays(state, g.objects, c)} :
           /\ pc' = IF g.outOfBounds \/ OffsetsMatch(t)
                    THEN "running" ELSE "aborted"
           /\ result' =
               IF g.outOfBounds
               THEN [op |-> "scene", id |-> id, undefined |-> TRUE,
                     dangling |-> g.dangling]
               ELSE [op |-> "scene", id |-> id, undefined |-> FALSE,
                     dangling |-> g.dangling,
                     objects |-> g.objects,
                     children |-> g.children,
                     parents |-> SynthesizeParents(g.objects, g.children),
                     mappingBound |-> IF g.objects = <<>> THEN 0
                                      ELSE MaxOf(g.objects) + 1,
                     counts |-> c,
                     arrays |-> t,
                     asserted |-> OffsetsMatch(t),
                     fields |-> CgltfSceneFields(c)]
    /\ UNCHANGED <<conf, document, state, imageLog>>

CgltfImporter_doObjectCount ==
    /\ pc = "running"
    /\ CgltfImporter_doIsOpened(state)
    /\ result' = [op |-> "objectCount", value |-> Size(state.data.nodes)]
    /\ UNCHANGED <<conf, document, state, pc, imageLog>>

(***************************************************************************)
(* Families of source documents.                                           *)
(***************************************************************************)
RawDoc(nodes, meshes, numLights, numCameras, textures) ==
    [parseable |-> TRUE, error |-> "", info |-> "", nodes |-> nodes,
     meshes |-> meshes, numLights |-> numLights,
     lightTypes |-> [k \in 1 .. numLights |-> "UFBX_LIGHT_POINT"],
     lightDecays |-> [k \in 1 .. numLights |-> "UFBX_LIGHT_DECAY_QUADRATIC"],
     nodeNames |-> [k \in 1 .. Len(nodes) |-> ""],
     numCameras |-> numCameras, textures |-> textures, files |-> <<>>]

RawNode(parent, attribs, geom, materials) ==
    [parent |-> parent, attribs |-> attribs, geom |-> geom, materials |-> materials]

RootNode(attribs) == RawNode(NoParent, attribs, FALSE, <<>>)

Slot(p, l, t, m) ==
    [num_point_faces |-> p, num_line_faces |-> l, num_triangles |-> t,
     material |-> m]

Faces(slot) == slot.num_point_faces + slot.num_line_faces + slot.num_triangles

\* Material slots with at most b faces.
SlotsUpTo(b, mats) ==
    {Slot(q[1], q[2], q[3], m) :
        q \in {r \in (0 .. b) \X (0 .. b) \X (0 .. b) : r[1] + r[2] + r[3] <= b},
        m \in mats}

\* Sequences of exactly n material slots with at most b faces in total.
RECURSIVE SlotSeqs(_, _, _)
SlotSeqs(n, b, mats) ==
    IF n = 0 THEN {<<>>}
    ELSE UNION {{<<s>> \o r : r \in SlotSeqs(n - 1, b - Faces(s), mats)} :
                    s \in SlotsUpTo(b, mats)}

\* Meshes of 1 .. MaxSlots material slots with at most b faces.
MeshesUpTo(b, mats, skins) ==
    {[materials |-> s, skinned |-> k, vertex_normal |-> FALSE,
      uv_sets |-> <<>>, color_sets |-> 0] :
        s \in UNION {SlotSeqs(n, b, mats) : n \in 1 .. MaxSlots}, k \in skins}

\* Slot counts of up to MaxMeshes meshes: 0 marks a mesh that is absent, and
\* the absent ones come last.
MeshShapes ==
    {s \in [1 .. MaxMeshes -> 0 .. MaxSlots] :
        \A k \in 1 .. (MaxMeshes - 1) : s[k] = 0 => s[k + 1] = 0}

\* The cell of primitive kind q (1 points, 2 lines, 3 triangles) in slot j
\* of mesh k.
Cell(k, j, q) == 3 * (MaxSlots * (k - 1) + (j - 1)) + q

\* Up to MaxTotalFaces faces, each in a cell; 0 marks a face that is absent.
FaceLists ==
    {f \in [1 .. MaxTotalFaces -> 0 .. Cell(MaxMeshes, MaxSlots, 3)] :
        \A i \in 1 .. (MaxTotalFaces - 1) : f[i] <= f[i + 1]}

CellFaces(f, c) == Cardinality({i \in DOMAIN f : f[i] = c})

\* Every face lies in a slot the shape has.
FacesInShape(shape, f) ==
    \A i \in DOMAIN f :
        f[i] = 0 \/ ((f[i] - 1) \div 3) % MaxSlots
                        < shape[(f[i] - 1) \div (3 * MaxSlots) + 1]

MeshesOf(shape, f) ==
    [k \in 1 .. Cardinality({i \in 1 .. MaxMeshes : shape[i] > 0}) |->
        [materials |->
             [j \in 1 .. shape[k] |->
                 Slot(CellFaces(f, Cell(k, j, 1)), CellFaces(f, Cell(k, j, 2)),
                      CellFaces(f, Cell(k, j, 3)), NoMaterial)],
         skinned |-> FALSE, vertex_normal |-> FALSE, uv_sets |-> <<>>,
         color_sets |-> 0]]

\* Documents that vary the meshes: up to MaxMeshes meshes of up to MaxSlots
\* material slots, up to MaxTotalFaces faces, under a bare root.
MeshDocs ==
    {RawDoc(<<RootNode(<<>>)>>, MeshesOf(x[1], x[2]), 0, 0, <<>>) :
        x \in {y \in MeshShapes \X FaceLists : FacesInShape(y[1], y[2])}}
        \cup {BadData}

\* Parent functions of n nodes under the root that have no cycle.
RECURSIVE ReachesRoot(_, _, _)
ReachesRoot(p, i, fuel) ==
    \/ i = 0
    \/ fuel > 0 /\ ReachesRoot(p, p[i], fuel - 1)

Parents(n) ==
    {p \in [1 .. n -> 0 .. n] : \A i \in 1 .. n : ReachesRoot(p, i, n)}

\* The meshes, light and camera of the documents that vary the nodes: an
\* unskinned mesh of one chunk and a skinned mesh of two.
SceneMeshes ==
    <<[materials |-> <<Slot(0, 0, 1, 0)>>, skinned |-> FALSE,
       vertex_normal |-> FALSE, uv_sets |-> <<>>, color_sets |-> 0],
      [materials |-> <<Slot(0, 1, 1, 1)>>, skinned |-> TRUE,
       vertex_normal |-> FALSE, uv_sets |-> <<>>, color_sets |-> 0]>>

SceneElements ==
    {Element("mesh", 0), Element("mesh", 1), Element("light", 0),
     Element("camera", 0)}

AttribSeqs(b) == UNION {[1 .. k -> SceneElements] : k \in 0 .. b}

\* Attachment lists of n nodes with at most b attachments in total.
RECURSIVE NodeAttribs(_, _)
NodeAttribs(n, b) ==
    IF n = 0 THEN {<<>>}
    ELSE UNION {{<<a>> \o r : r \in NodeAttribs(n - 1, b - Len(a))} :
                    a \in AttribSeqs(b)}

\* Node lists: the root and n nodes under it; a holds the attachments,
\* g the geometry-transform flags of the n nodes.
SceneNodes(n, p, a, g) ==
    <<RootNode(a[1])>>
        \o [k \in 1 .. n |-> RawNode(p[k], a[k + 1], g[k], <<>>)]

\* A document that varies the node hierarchy: n nodes under the root with
\* parents p, attachments a and geometry-transform flags g.
SceneDoc(n, p, a, g) == RawDoc(SceneNodes(n, p, a, g), SceneMeshes, 1, 1, <<>>)

\* Documents of bare nodes.
NodeDocs ==
    UNION {{RawDoc(SceneNodes(n, p, [k \in 1 .. (n + 1) |-> <<>>],
                              [k \in 1 .. n |-> FALSE]),
                   <<>>, 0, 0, <<>>) :
                p \in Parents(n)} :
              n \in 0 .. MaxNodes}

\* Documents of one node that instances one mesh, with the node's own
\* materials 1 and 2 overriding the declared material 0.
MaterialDocs ==
    {RawDoc(<<RootNode(<<>>), RawNode(0, <<Element("mesh", 0)>>, FALSE, nm)>>,
            <<m>>, 0, 0, <<>>) :
        m \in MeshesUpTo(MaxTotalFaces, {NoMaterial, 0}, {FALSE}),
        nm \in UNION {[1 .. k -> {1, 2}] : k \in 0 .. MaxSlots}}

\* Texture lists: file_index counts the textures with a file that precede.
TextureList(files, names) ==
    [k \in 1 .. Len(files) |->
        [has_file |-> files[k],
         file_index |->
             IF files[k]
             THEN Cardinality({j \in 1 .. (k - 1) : files[j]})
             ELSE NoImage,
         name |-> names[k]]]

TextureNames == {"a", "b"}

\* Documents that vary the textures.
TextureDocs ==
    UNION {{RawDoc(<<RootNode(<<>>)>>, <<>>, 0, 0, TextureList(f, nm)) :
                f \in [1 .. n -> BOOLEAN], nm \in [1 .. n -> TextureNames]} :
              n \in 0 .. MaxTextures}

\* Image files: embedded or external, and what the image importer finds
\* in them.
FileKinds ==
    {[embedded |-> e, opens |-> k[1], image2DCount |-> k[2], levels |-> k[3]] :
        e \in BOOLEAN, k \in {<<FALSE, 0, 0>>, <<TRUE, 1, 2>>, <<TRUE, 2, 1>>}}

ImageDoc(files) ==
    [RawDoc(<<RootNode(<<>>)>>, <<>>, 0, 0, <<>>) EXCEPT !.files = files]

\* glTF files.
Camera(name, type) == [name |-> name, type |-> type]

Image(uri, opens) == [uri |-> uri, opens |-> opens, levels |-> 2]

\* cgltf_node up to what doScene reads; mesh, camera, light and skin are
\* ids, -1 for none.
GltfNode(children, transform, mesh, camera, light, skin) ==
    [children |-> children,
     has_matrix |-> transform[1], has_translation |-> transform[2],
     has_rotation |-> transform[3], has_scale |-> transform[4],
     mesh |-> mesh, camera |-> camera, light |-> light, skin |-> skin]

PlainNode(children) ==
    GltfNode(children, <<FALSE, FALSE, FALSE, FALSE>>, 0 - 1, 0 - 1, 0 - 1,
             0 - 1)

cgltf_scene(nodes) == [nodes |-> nodes]

Reverse(s) == [k \in DOMAIN s |-> s[Len(s) + 1 - k]]

\* The "children" list of node n in a file whose parser derived the parent
\* pointers parents from it: the nodes with parent n, in ascending or
\* descending order.
ChildrenOf(parents, n, descending) ==
    LET ascending == SelectSeq([i \in DOMAIN parents |-> i - 1],
                               LAMBDA i : At(parents, i) = n)
    IN  IF descending THEN Reverse(ascending) ELSE ascending

GltfFile(parsed, minVersion, version, extensionsRequired, parents) ==
    [result |-> parsed, minVersion |-> minVersion, version |-> version,
     extensionsRequired |-> extensionsRequired, parents |-> parents,
     nodes |-> [k \in DOMAIN parents |->
                   PlainNode(ChildrenOf(parents, k - 1, FALSE))],
     scenes |-> <<>>,
     meshes |-> <<1, 2>>,
     meshNames |-> <<"a", "b">>,
     primitiveMaterials |-> <<<<0 - 1>>, <<0 - 1, 0>>>>,
     cameras |-> <<Camera("a", "cgltf_camera_type_perspective")>>,
     lights |-> <<>>, textures |-> <<>>,
     images |-> <<Image("external", TRUE), Image("data", TRUE)>>]

GoodFile ==
    GltfFile("cgltf_result_success", NoVersion, <<"2", ".", "0">>, <<>>,
             <<NoParent, 0>>)

Filenames == {<<"a/", "x.gltf">>, <<"b/", "y.gltf">>}

\* Files for reopening: one that opens and one that does not parse.
ReopenFiles ==
    {GoodFile, [GoodFile EXCEPT !.result = "cgltf_result_invalid_json"]}

ParseResults ==
    {"cgltf_result_success", "cgltf_result_out_of_memory",
     "cgltf_result_unknown_format", "cgltf_result_invalid_json",
     "cgltf_result_invalid_gltf", "cgltf_result_legacy_gltf",
     "cgltf_result_data_too_short"}

Versions ==
    {NoVersion, <<"2", ".", "0">>, <<"2", ".", "1">>, <<"2">>, <<"2", "0">>,
     <<"3", ".", "0">>}

ExtensionNames ==
    {"KHR_lights_punctual", "MSFT_texture_dds", "KHR_draco_mesh_compression",
     "EXT_meshopt_compression"}

ExtensionLists ==
    UNION {[1 .. n -> ExtensionNames] : n \in 0 .. MaxExtensions}

\* Every assignment of a parent (or none) to each of n nodes.
ParentLists(n) == [1 .. n -> (0 - 1) .. (n - 1)]

\* Files that vary one of the parse result, the versions, the required
\* extensions and the node parents, and files that combine a good or a bad
\* value of each.
StructureFiles ==
    {[GoodFile EXCEPT !.result = r] : r \in ParseResults}
        \cup {[GoodFile EXCEPT !.minVersion = mv, !.version = v] :
                 mv \in Versions, v \in Versions}
        \cup {[GoodFile EXCEPT !.extensionsRequired = e] : e \in ExtensionLists}
        \cup {[GoodFile EXCEPT !.parents = p] : p \in ParentLists(MaxGltfNodes)}
        \cup {[GoodFile EXCEPT !.parents = p] : p \in ParentLists(MaxGltfNodes - 1)}
        \cup {GltfFile(r, mv, v, e, p) :
                 r \in {"cgltf_result_success", "cgltf_result_invalid_json"},
                 mv \in {NoVersion, <<"2", ".", "1">>},
                 v \in {<<"2", ".", "0">>, <<"3", ".", "0">>},
                 e \in {<<>>, <<"EXT_meshopt_compression", "KHR_lights_punctual",
                                "KHR_draco_mesh_compression">>},
                 p \in {<<NoParent>>, <<1, 0>>}}

\* Documents of up to MaxNodes nodes under the root, each with at most one
\* attachment and with or without a geometry transform.
QueryDoc(n, a, g) ==
    RawDoc(SceneNodes(n, [k \in 1 .. n |-> 0], <<<<>>>> \o a, g),
           SceneMeshes, 1, 1, <<>>)

\* Names of files that do not exist.
MissingNames == {"i-do-not-exist.foo", "missing.fbx"}

(***************************************************************************)
(* Configurations.                                                         *)
(***************************************************************************)
Configuration(g, u, r) ==
    [DefaultConfiguration EXCEPT !.geometryTransformHandling = g,
                                 !.unitNormalizationHandling = u,
                                 !.preserveRootNode = r]

ValidConfigurations ==
    {Configuration(g, u, FALSE) :
        g \in {"preserve", "helperNodes", "modifyGeometry"},
        u \in {"transformRoot", "adjustTransforms"}}

AllConfigurations ==
    {Configuration(g, u, r) :
        g \in {"preserve", "helperNodes", "modifyGeometry", "bogus"},
        u \in {"transformRoot", "adjustTransforms", "bogus"},
        r \in BOOLEAN}

(***************************************************************************)
(* Specifications.  Each explores the importer over one family of          *)
(* documents and configurations.                                           *)
(***************************************************************************)
InitWith(confs) ==
    /\ conf \in confs
    /\ document = NoDocument
    /\ state = NoState
    /\ result = NoResult
    /\ pc = "running"
    /\ imageLog = <<>>

\* Scene flattening over varied node hierarchies.
Init == InitWith(ValidConfigurations)

Next ==
    \/ ~state.opened /\ \E n \in 0 .. MaxNodes :
                             \E p \in Parents(n),
                                a \in NodeAttribs(n + 1, MaxAttachments),
                                g \in [1 .. n -> BOOLEAN] :
                                 doOpenData(SceneDoc(n, p, a, g))
    \/ doClose
    \/ doScene
    \/ doObjectCount

Spec == Init /\ [][Next]_vars

\* Mesh chunking over varied meshes.
InitMesh == InitWith({DefaultConfiguration})

NextMesh ==
    \/ ~state.opened /\ \E d \in MeshDocs : doOpenData(d)
    \/ doClose
    \/ doMeshCount
    \/ \E id \in Indices(state.meshChunks) : doMesh(id)

SpecMesh == InitMesh /\ [][NextMesh]_vars

\* Meshes of one triangle with or without normals, up to MaxSets UV sets
\* with or without tangents and bitangents, and up to MaxSets colour sets,
\* under limits from -2 (unbounded) to MaxSets.
UvSets ==
    UNION {[1 .. n -> [vertex_tangent : BOOLEAN, vertex_bitangent : BOOLEAN]] :
               n \in 0 .. MaxSets}

AttributeDocs ==
    {RawDoc(<<RootNode(<<>>)>>,
            <<[materials |-> <<Slot(0, 0, 1, NoMaterial)>>, skinned |-> FALSE,
               vertex_normal |-> n, uv_sets |-> u, color_sets |-> c]>>,
            0, 0, <<>>) :
        n \in BOOLEAN, u \in UvSets, c \in 0 .. MaxSets}

AttributeLimits == (0 - 2) .. MaxSets

InitAttribute ==
    InitWith({[DefaultConfiguration EXCEPT !.maxUvSets = u,
                                          !.maxTangentSets = t,
                                          !.maxColorSets = c] :
                 u \in AttributeLimits, t \in AttributeLimits,
                 c \in AttributeLimits})

NextAttribute ==
    \/ ~state.opened /\ \E d \in AttributeDocs : doOpenData(d)
    \/ doClose
    \/ doMeshCount
    \/ \E id \in Indices(state.meshChunks) : doMesh(id)

SpecAttribute == InitAttribute /\ [][NextAttribute]_vars

\* Root retention over all configurations.
InitConf == InitWith(AllConfigurations)

NextConf ==
    \/ ~state.opened /\ \E d \in NodeDocs : doOpenData(d)
    \/ ~state.opened /\ \E d \in NodeDocs : doOpenFile(d)
    \/ doClose
    \/ doScene
    \/ doObjectCount

SpecConf == InitConf /\ [][NextConf]_vars

\* Object names: bare nodes under the root, every node named "" or "a",
\* with the root kept or elided.
NodeNames == {"", "a"}

QueriedNames == {"", "a", "b"}

NamedDocs ==
    UNION {{[d EXCEPT !.nodeNames = names] :
               names \in [1 .. Len(d.nodes) -> NodeNames]} : d \in NodeDocs}

InitName ==
    InitWith({[DefaultConfiguration EXCEPT !.preserveRootNode = r] :
                 r \in BOOLEAN})

NextName ==
    \/ ~state.opened /\ \E d \in NamedDocs : doOpenData(d)
    \/ doClose
    \/ doObjectCount
    \/ \E name \in QueriedNames : doObjectForName(name)
    \/ \E id \in 0 .. MaxNodes : doObjectName(id)

SpecName == InitName /\ [][NextName]_vars

\* Material resolution over varied meshes and node materials.
InitMat == InitWith({DefaultConfiguration})

NextMat ==
    \/ ~state.opened /\ \E d \in MaterialDocs : doOpenData(d)
    \/ doClose
    \/ doScene

SpecMat == InitMat /\ [][NextMat]_vars

\* Texture resolution over varied texture lists.
InitTex == InitWith({DefaultConfiguration})

NextTex ==
    \/ ~state.opened /\ \E d \in TextureDocs : doOpenData(d)
    \/ doClose
    \/ doTextureCount
    \/ \E name \in TextureNames \cup {"c"} : doTextureForName(name)
    \/ \E id \in Indices(state.textures) : doTextureName(id)

SpecTex == InitTex /\ [][NextTex]_vars

\* Image queries over varied image files.
InitImage == InitWith({DefaultConfiguration})

NextImage ==
    \/ ~state.opened /\ \E n \in 0 .. MaxFiles :
                             \E f \in [1 .. n -> FileKinds] :
                                 doOpenData(ImageDoc(f))
    \/ ~state.opened /\ \E n \in 0 .. MaxFiles :
                             \E f \in [1 .. n -> FileKinds] :
                                 doOpenFile(ImageDoc(f))
    \/ doClose
    \/ doImage2DCount
    \/ \E id \in Indices(state.scene.texture_files) : doImage2DLevelCount(id)
    \/ \E id \in Indices(state.scene.texture_files) : doImage2D(id)

SpecImage == InitImage /\ [][NextImage]_vars

\* CgltfImporter: reopening after failed and successful opens.
InitGltfWith(confs) ==
    /\ conf \in confs
    /\ document = NoCall
    /\ state = NullDocument
    /\ result = NoResult
    /\ pc = "running"
    /\ imageLog = <<>>

InitReopen == InitGltfWith({[ignoreRequiredExtensions |-> FALSE]})

NextReopen ==
    \/ \E file \in ReopenFiles : CgltfImporter_openData(file)
    \/ \E filename \in Filenames, file \in ReopenFiles \cup {Unreadable} :
          CgltfImporter_openFile(filename, file)
    \/ CgltfImporter_close
    \/ \E name \in {"a", "b"} : CgltfImporter_doCameraForName(name)
    \/ \E id \in 0 .. 1 : CgltfImporter_doImage2D(id)

SpecReopen == InitReopen /\ [][NextReopen]_vars

\* Image queries on documents opened from memory and from files, after
\* opens that succeeded and opens that failed.
InitExternal == InitGltfWith({[ignoreRequiredExtensions |-> FALSE]})

NextExternal ==
    \/ \E file \in ReopenFiles : CgltfImporter_openData(file)
    \/ \E filename \in Filenames, file \in ReopenFiles \cup {Unreadable} :
          CgltfImporter_openFile(filename, file)
    \/ CgltfImporter_close
    \/ \E id \in 0 .. 1 : CgltfImporter_doImage2D(id)
    \/ \E id \in 0 .. 1 : CgltfImporter_doImage2DLevelCount(id)

SpecExternal == InitExternal /\ [][NextExternal]_vars

\* CgltfImporter: opening files of varied structure.
InitGltf ==
    InitGltfWith({[ignoreRequiredExtensions |-> i] : i \in BOOLEAN})

\* A refused doOpenData leaves the null _d that close() leaves, so files
\* are opened in a new importer, after close(), and after an openFile() that
\* could not read its file.
Reopenable ==
    /\ ~CgltfImporter_doIsOpened(state)
    /\ state.null => result.op \in {"none", "close"}

NextGltf ==
    \/ Reopenable /\ \E file \in StructureFiles : CgltfImporter_openData(file)
    \/ Reopenable /\ \E filename \in Filenames,
                         file \in StructureFiles \cup {Unreadable} :
                          CgltfImporter_openFile(filename, file)
    \/ CgltfImporter_close

SpecGltf == InitGltf /\ [][NextGltf]_vars

\* Queries under a configuration that changes while the file is opened.
InitQuery ==
    InitWith({Configuration(g, "adjustTransforms", FALSE) :
                 g \in {"preserve", "helperNodes", "modifyGeometry"}})

NextQuery ==
    \/ ~state.opened /\ \E n \in 0 .. MaxNodes :
                             \E a \in [1 .. n -> AttribSeqs(1)],
                                g \in [1 .. n -> BOOLEAN] :
                                 doOpenData(QueryDoc(n, a, g))
    \/ doClose
    \/ doScene
    \/ doObjectCount
    \/ \E g \in {"preserve", "helperNodes", "modifyGeometry"} :
          setConfiguration([conf EXCEPT !.geometryTransformHandling = g])

SpecQuery == InitQuery /\ [][NextQuery]_vars

\* Opens that fail in the parser.
InitFail == InitWith(ValidConfigurations)

NextFail ==
    \/ ~state.opened /\ \E d \in NodeDocs \cup {BadData} : doOpenData(d)
    \/ ~state.opened /\ \E d \in NodeDocs \cup {MissingFile(f) : f \in MissingNames} :
                             doOpenFile(d)
    \/ doClose
    \/ doScene
    \/ doObjectCount

SpecFail == InitFail /\ [][NextFail]_vars

\* FBX files with one or two lights of every ufbx_light_type.
LightTypes ==
    {"UFBX_LIGHT_POINT", "UFBX_LIGHT_DIRECTIONAL", "UFBX_LIGHT_SPOT",
     "UFBX_LIGHT_AREA", "UFBX_LIGHT_VOLUME"}

LightDocs ==
    UNION {{[RawDoc(<<RootNode(<<>>)>>, <<>>, n, 0, <<>>)
                 EXCEPT !.lightTypes = t] : t \in [1 .. n -> LightTypes]} :
               n \in 1 .. 2}

\* glTF lights: every type, cone angles in degrees around the allowed
\* bounds, range absent (0) or given.
GltfLight(type, inner, outer, range) ==
    [type |-> type, spot_inner_cone_angle |-> inner,
     spot_outer_cone_angle |-> outer, range |-> range]

GltfLights ==
    {GltfLight(type, inner, outer, range) :
         type \in {"cgltf_light_type_point", "cgltf_light_type_spot",
                   "cgltf_light_type_directional", "cgltf_light_type_invalid"},
         inner \in {0 - 10, 0, 30}, outer \in {0, 30, 45, 90},
         range \in {0, 5}}

\* glTF textures: a KHR_texture_basisu image or none (-1), extension
\* objects with their "source" keys, a core image or none (-1).
Extension(name, sources) == [name |-> name, sources |-> sources]

GltfTexture(basisu, extensions, image) ==
    [basisu |-> basisu, extensions |-> extensions, image |-> image]

TextureExtensionLists ==
    {<<>>,
     <<Extension("GOOGLE_texture_basis", <<5>>)>>,
     <<Extension("MSFT_texture_dds", <<0 - 1>>)>>,
     <<Extension("MSFT_texture_dds", <<0>>)>>,
     <<Extension("GOOGLE_texture_basis", <<7, 0>>)>>,
     <<Extension("GOOGLE_texture_basis", <<>>),
       Extension("MSFT_texture_dds", <<1>>)>>,
     <<Extension("GOOGLE_texture_basis", <<0>>),
       Extension("MSFT_texture_dds", <<9>>)>>,
     <<Extension("EXT_texture_webp", <<7>>)>>,
     <<Extension("EXT_texture_webp", <<0>>),
       Extension("MSFT_texture_dds", <<2>>)>>}

GltfTextures ==
    {GltfTexture(basisu, extensions, image) :
         basisu \in {0 - 1, 0}, extensions \in TextureExtensionLists,
         image \in {0 - 1, 1}}

CameraTypes ==
    {"cgltf_camera_type_perspective", "cgltf_camera_type_orthographic",
     "cgltf_camera_type_invalid"}

\* glTF files that open, with one entity kind varied at a time and a second,
\* valid entity after it.
EntityFiles ==
    {[GoodFile EXCEPT !.cameras =
          <<Camera("a", t), Camera("b", "cgltf_camera_type_perspective")>>] :
         t \in CameraTypes}
    \cup {[GoodFile EXCEPT !.lights =
               <<l, GltfLight("cgltf_light_type_point", 0, 45, 0)>>] :
              l \in GltfLights}
    \cup {[GoodFile EXCEPT !.textures =
               <<t, GltfTexture(0 - 1, <<>>, 0)>>] : t \in GltfTextures}

\* The plugin under test: a CgltfImporter keeps its Document in state, an
\* UfbxImporter its State.
IsCgltfImporter == "null" \in DOMAIN state

\* Queries that can fail after a successful open, in either plugin.
InitEntity ==
    \/ InitWith({DefaultConfiguration})
    \/ InitGltfWith({[ignoreRequiredExtensions |-> FALSE]})

NextEntity ==
    \/ ~IsCgltfImporter /\ ~state.opened
           /\ \E raw \in LightDocs : doOpenData(raw)
    \/ ~IsCgltfImporter /\ doClose
    \/ ~IsCgltfImporter /\ doLightCount
    \/ ~IsCgltfImporter /\ state.opened
           /\ \E id \in Indices(state.scene.lights) : doLight(id)
    \/ IsCgltfImporter /\ Reopenable
           /\ \E file \in EntityFiles : CgltfImporter_openData(file)
    \/ IsCgltfImporter /\ CgltfImporter_close
    \/ IsCgltfImporter /\ CgltfImporter_doIsOpened(state)
           /\ \E id \in Indices(state.data.cameras) :
                  CgltfImporter_doCamera(id)
    \/ IsCgltfImporter /\ CgltfImporter_doIsOpened(state)
           /\ \E id \in Indices(state.data.lights) :
                  CgltfImporter_doLight(id)
    \/ IsCgltfImporter /\ CgltfImporter_doIsOpened(state)
           /\ \E id \in Indices(state.data.textures) :
                  CgltfImporter_doTexture(id)

SpecEntity == InitEntity /\ [][NextEntity]_vars

\* FBX files with one or two lights of every type and every decay.
LightDecays ==
    {"UFBX_LIGHT_DECAY_NONE", "UFBX_LIGHT_DECAY_LINEAR",
     "UFBX_LIGHT_DECAY_QUADRATIC", "UFBX_LIGHT_DECAY_CUBIC"}

DecayDocs ==
    UNION {{[RawDoc(<<RootNode(<<>>)>>, <<>>, n, 0, <<>>)
                 EXCEPT !.lightTypes = t, !.lightDecays = d] :
               t \in [1 .. n -> LightTypes], d \in [1 .. n -> LightDecays]} :
               n \in 1 .. 2}

InitLight == InitWith({DefaultConfiguration})

NextLight ==
    \/ ~state.opened /\ \E raw \in DecayDocs : doOpenData(raw)
    \/ doClose
    \/ doLightCount
    \/ \E id \in Indices(state.scene.lights) : doLight(id)

SpecLight == InitLight /\ [][NextLight]_vars

\* glTF files with every node hierarchy the parser accepts: each node the
\* child of at most one node, child lists in either order, and one scene
\* whose root list names parentless nodes, possibly more than once.
RootLists(parents) ==
    UNION {[1 .. n -> {i \in Indices(parents) : At(parents, i) = NoParent}] :
               n \in 0 .. MaxRoots}

HierarchyFile(parents, descending, roots) ==
    [GoodFile EXCEPT
         !.parents = parents,
         !.nodes = [k \in DOMAIN parents |->
                       PlainNode(ChildrenOf(parents, k - 1, descending))],
         !.scenes = <<cgltf_scene(roots)>>]

HierarchyFiles ==
    UNION {{HierarchyFile(p, descending, roots) :
                descending \in BOOLEAN, roots \in RootLists(p)} :
               p \in UNION {ParentLists(n) : n \in 1 .. MaxGltfNodes}}

InitScene == InitGltfWith({[ignoreRequiredExtensions |-> FALSE]})

NextScene ==
    \/ Reopenable /\ \E file \in HierarchyFiles : CgltfImporter_openData(file)
    \/ CgltfImporter_close
    \/ \E garbage \in 0 .. MaxGarbage : CgltfImporter_doScene(0, garbage)
    \/ CgltfImporter_doObjectCount

SpecScene == InitScene /\ [][NextScene]_vars

\* glTF files whose nodes carry every combination of a transformation
\* (none, matrix, translation, matrix with rotation and scale) and of
\* attachments (none, a two-primitive mesh with one material, a mesh with a
\* camera, a light and a skin), as a chain, as a list of roots, and as
\* children of a root that the scene lists twice.
NodeTransforms ==
    {<<FALSE, FALSE, FALSE, FALSE>>, <<TRUE, FALSE, FALSE, FALSE>>,
     <<FALSE, TRUE, FALSE, FALSE>>, <<TRUE, FALSE, TRUE, TRUE>>}

NodeAttachments ==
    {<<0 - 1, 0 - 1, 0 - 1, 0 - 1>>, <<1, 0 - 1, 0 - 1, 0 - 1>>,
     <<0, 0, 0, 0>>}

FillShapes(n) ==
    {[parents |-> [k \in 1 .. n |-> k - 2], roots |-> <<0>>],
     [parents |-> [k \in 1 .. n |-> NoParent],
      roots |-> [k \in 1 .. n |-> k - 1]],
     [parents |-> [k \in 1 .. n |-> IF k = 1 THEN NoParent ELSE 0],
      roots |-> <<0, 0>>]}

FillFile(shape, transforms, attachments) ==
    [GoodFile EXCEPT
         !.parents = shape.parents,
         !.nodes = [k \in DOMAIN shape.parents |->
                       GltfNode(ChildrenOf(shape.parents, k - 1, FALSE),
                                transforms[k], attachments[k][1],
                                attachments[k][2], attachments[k][3],
                                attachments[k][4])],
         !.scenes = <<cgltf_scene(shape.roots)>>,
         !.lights = <<GltfLight("cgltf_light_type_point", 0, 45, 0)>>]

FillFiles ==
    UNION {{FillFile(shape, transforms, attachments) :
                shape \in FillShapes(n),
                transforms \in [1 .. n -> NodeTransforms],
                attachments \in [1 .. n -> NodeAttachments]} :
               n \in 1 .. MaxFillNodes}

InitFill == InitGltfWith({[ignoreRequiredExtensions |-> FALSE]})

NextFill ==
    \/ Reopenable /\ \E file \in FillFiles : CgltfImporter_openData(file)
    \/ CgltfImporter_close
    \/ \E garbage \in 0 .. MaxGarbage : CgltfImporter_doScene(0, garbage)

SpecFill == InitFill /\ [][NextFill]_vars

\* glTF files with up to MaxGltfMeshes meshes of 1 to MaxPrimitives
\* primitives, named "a" or "b"; the scene lists one node per mesh, last
\* mesh first, and then a second node with the first mesh.
MeshFile(meshes, names) ==
    LET n == Len(meshes)
        count == IF n = 0 THEN 1 ELSE n + 1
    IN  [GoodFile EXCEPT
             !.meshes = meshes,
             !.meshNames = names,
             !.primitiveMaterials =
                 [i \in 1 .. n |-> [j \in 1 .. meshes[i] |-> 0 - 1]],
             !.parents = [k \in 1 .. count |-> NoParent],
             !.nodes = [k \in 1 .. count |->
                           GltfNode(<<>>, <<FALSE, FALSE, FALSE, FALSE>>,
                                    IF n = 0 THEN 0 - 1
                                    ELSE IF k = count THEN 0 ELSE n - k,
                                    0 - 1, 0 - 1, 0 - 1)],
             !.scenes = <<cgltf_scene([k \in 1 .. count |-> k - 1])>>]

MeshFiles ==
    UNION {{MeshFile(meshes, names) :
                meshes \in [1 .. n -> 1 .. MaxPrimitives],
                names \in [1 .. n -> {"a", "b"}]} : n \in 0 .. MaxGltfMeshes}

InitMeshMap == InitGltfWith({[ignoreRequiredExtensions |-> FALSE]})

NextMeshMap ==
    \/ Reopenable /\ \E file \in MeshFiles : CgltfImporter_openData(file)
    \/ CgltfImporter_close
    \/ CgltfImporter_doMeshCount
    \/ \E name \in {"a", "b"} : CgltfImporter_doMeshForName(name)
    \/ \E garbage \in 0 .. MaxGarbage : CgltfImporter_doScene(0, garbage)

SpecMeshMap == InitMeshMap /\ [][NextMeshMap]_vars
\* Image queries in either plugin, over images that open and images that do
\* not, embedded and external, in documents opened from memory and from
\* files.
CacheFiles ==
    {[GoodFile EXCEPT !.images = <<Image(u[1], o[1]), Image(u[2], o[2])>>] :
        u \in {"external", "data"} \X {"external", "data"},
        o \in BOOLEAN \X BOOLEAN}

InitCache ==
    \/ InitWith({DefaultConfiguration})
    \/ InitGltfWith({[ignoreRequiredExtensions |-> FALSE]})

NextCache ==
    \/ ~IsCgltfImporter /\ ~state.opened
           /\ \E f \in [1 .. MaxFiles -> FileKinds] : doOpenData(ImageDoc(f))
    \/ ~IsCgltfImporter /\ ~state.opened
           /\ \E f \in [1 .. MaxFiles -> FileKinds] : doOpenFile(ImageDoc(f))
    \/ ~IsCgltfImporter /\ doClose
    \/ ~IsCgltfImporter /\ state.opened
           /\ \E id \in Indices(state.scene.texture_files) :
                  doImage2DLevelCount(id)
    \/ ~IsCgltfImporter /\ state.opened
           /\ \E id \in Indices(state.scene.texture_files) : doImage2D(id)
    \/ IsCgltfImporter /\ Reopenable
           /\ \E file \in CacheFiles : CgltfImporter_openData(file)
    \/ IsCgltfImporter /\ Reopenable
           /\ \E filename \in Filenames, file \in CacheFiles :
                  CgltfImporter_openFile(filename, file)
    \/ IsCgltfImporter /\ CgltfImporter_close
    \/ IsCgltfImporter /\ CgltfImporter_doIsOpened(state)
           /\ \E id \in Indices(state.data.images) :
                  CgltfImporter_doImage2D(id)
    \/ IsCgltfImporter /\ CgltfImporter_doIsOpened(state)
           /\ \E id \in Indices(state.data.images) :
                  CgltfImporter_doImage2DLevelCount(id)

SpecCache == InitCache /\ [][NextCache]_vars

(***************************************************************************)
(* The graph walks of CgltfImporter, one loop iteration per step.  Here    *)
(* document is the file given to openData(), state the local variables of  *)
(* the walk and pc the loop the program is in: "cycle.for" and             *)
(* "cycle.while" in the cycle search of doOpenData, "opened" between       *)
(* openData() and scene(0), "scene.for" and "scene.range" in the two       *)
(* gathering loops of doScene, "refused" after a cycle was reported,       *)
(* "done" after the gathering, "undefined" after objects was read out of   *)
(* bounds.  processed counts the passes of the inner loop body per         *)
(* position of objects; held tells that nodeRangeToProcess refers to       *)
(* storage that children has left, a read of its max() then gives any     *)
(* value.                                                                  *)
(***************************************************************************)
WalkStart ==
    [i |-> 0, p1 |-> NoParent, p2 |-> NoParent, objects |-> <<>>,
     children |-> <<>>, capacity |-> 0, j |-> 0, held |-> FALSE,
     dangling |-> FALSE, processed |-> <<>>]

\* The head of the for loop over the nodes, and the initialisation of p1
\* and p2 for node i.
doOpenData_forNode ==
    /\ pc = "cycle.for"
    /\ LET parents == document.file.parents
           p1 == At(parents, state.i)
       IN  IF state.i = Size(parents)
           THEN /\ pc' = "opened"
                /\ result' = [op |-> "openData", ok |-> TRUE, out |-> <<>>]
                /\ UNCHANGED state
           ELSE /\ pc' = "cycle.while"
                /\ state' = [state EXCEPT !.p1 = p1,
                                          !.p2 = ParentOf(parents, p1)]
                /\ UNCHANGED result
    /\ UNCHANGED <<conf, document, imageLog>>

\* The head and body of the while loop of the cycle search.
doOpenData_whileParents ==
    /\ pc = "cycle.while"
    /\ LET parents == document.file.parents
       IN  IF state.p1 # NoParent /\ state.p2 # NoParent
           THEN IF state.p1 = state.p2
                THEN /\ pc' = "refused"
                     /\ result' =
                            [op |-> "openData", ok |-> FALSE,
                             out |-> <<Diagnostic("Error",
                                 <<"Trade::CgltfImporter::openData(): node tree contains cycle starting at node",
                                   state.i>>)>>]
                     /\ UNCHANGED state
                ELSE /\ state' =
                            [state EXCEPT
                                 !.p1 = At(parents, state.p1),
                                 !.p2 = ParentOf(parents,
                                                 At(parents, state.p2))]
                     /\ UNCHANGED <<pc, result>>
           ELSE /\ pc' = "cycle.for"
                /\ state' = [state EXCEPT !.i = state.i + 1]
                /\ UNCHANGED result
    /\ UNCHANGED <<conf, document, imageLog>>

\* doScene(0) up to the first test of the outer gathering loop.
doScene_begin ==
    /\ pc = "opened"
    /\ LET scene == At(document.file.scenes, 0)
       IN  state' = [state EXCEPT
                         !.objects = scene.nodes,
                         !.children = <<Range1D(0, Size(scene.nodes))>>,
                         !.capacity = Size(document.file.nodes) + 1,
                         !.i = 0,
                         !.processed = [k \in DOMAIN scene.nodes |-> 0]]
    /\ pc' = "scene.for"
    /\ UNCHANGED <<conf, document, result, imageLog>>

\* The head of the loop over children: nodeRangeToProcess is bound to
\* children[i] and j starts at its min().
doScene_forRange ==
    /\ pc = "scene.for"
    /\ IF state.i = Size(state.children)
       THEN /\ pc' = "done"
            /\ result' = [op |-> "scene", id |-> 0]
            /\ UNCHANGED state
       ELSE /\ pc' = "scene.range"
            /\ state' = [state EXCEPT !.j = At(state.children, state.i).min,
                                      !.held = FALSE]
            /\ UNCHANGED result
    /\ UNCHANGED <<conf, document, imageLog>>

\* The head and body of the loop over nodeRangeToProcess: objects[j] gets
\* its child range and its children appended; an append to children at
\* capacity moves the array from under nodeRangeToProcess.
doScene_forObject ==
    /\ pc = "scene.range"
    /\ \E max \in IF state.held THEN 0 .. MaxGarbage
                  ELSE {At(state.children, state.i).max} :
           IF state.j = max
           THEN /\ pc' = "scene.for"
                /\ state' = [state EXCEPT !.i = state.i + 1]
           ELSE IF state.j >= Size(state.objects)
           THEN /\ pc' = "undefined"
                /\ UNCHANGED state
           ELSE LET node == At(document.file.nodes,
                               At(state.objects, state.j))
                    grows == Size(state.children) = state.capacity
                IN  /\ state' =
                           [state EXCEPT
                                !.children =
                                    Append(state.children,
                                           Range1D(Size(state.objects),
                                                   Size(state.objects)
                                                       + Size(node.children))),
                                !.objects = state.objects \o node.children,
                                !.capacity = IF grows THEN 2 * state.capacity
                                             ELSE state.capacity,
                                !.held = state.held \/ grows,
                                !.dangling = state.dangling \/ grows,
                                !.processed =
                                    [state.processed EXCEPT
                                         ![state.j + 1] = @ + 1]
                                        \o [k \in DOMAIN node.children |-> 0],
                                !.j = state.j + 1]
                    /\ UNCHANGED pc
    /\ UNCHANGED <<conf, document, result, imageLog>>

\* openData() followed by scene(0) on every file of a node hierarchy, with
\* and without parent cycles; a loop that can take a step eventually does.
InitWalk ==
    /\ conf = [ignoreRequiredExtensions |-> FALSE]
    /\ \E file \in HierarchyFiles :
           document = [op |-> "openData", file |-> file, filename |-> <<>>]
    /\ state = WalkStart
    /\ result = NoResult
    /\ pc = "cycle.for"
    /\ imageLog = <<>>

NextWalk ==
    \/ doOpenData_forNode
    \/ doOpenData_whileParents
    \/ doScene_begin
    \/ doScene_forRange
    \/ doScene_forObject

SpecWalk == InitWalk /\ [][NextWalk]_vars

SpecWalkFair == SpecWalk /\ WF_vars(NextWalk)



(***************************************************************************)
(* Mesh chunk index.                                                       *)
(***************************************************************************)
ChunkKey(c) == <<c.meshId, c.meshMaterialIndex, PrimitiveRank(c.primitive)>>

KeyLess(a, b) ==
    \/ a[1] < b[1]
    \/ a[1] = b[1] /\ a[2] < b[2]
    \/ a[1] = b[1] /\ a[2] = b[2] /\ a[3] < b[3]

ChunkPositions(mesh, slot, primitive) ==
    {p \in Indices(state.meshChunks) :
        At(state.meshChunks, p) = MeshChunk(mesh, slot, primitive)}

ChunkRange(i) ==
    LET m == At(state.meshChunkMapping, i)
    IN  m.baseIndex .. (m.baseIndex + m.count - 1)

\* C1: after open, every (mesh, material slot, primitive kind) with faces
\* has exactly one chunk and every one without faces has none, and the
\* chunks are ordered by mesh, then material slot, then Points, Lines,
\* Triangles.
C1_OneChunkPerSlotAndKind ==
    state.opened =>
        /\ \A i \in Indices(state.scene.meshes) :
             \A j \in Indices(At(state.scene.meshes, i).materials) :
               \A k \in 1 .. 3 :
                 Cardinality(ChunkPositions(i, j, Primitives[k]))
                     = IF FaceCount(At(At(state.scene.meshes, i).materials, j),
                                    Primitives[k]) > 0
                       THEN 1 ELSE 0
        /\ \A p \in Indices(state.meshChunks) :
             LET c == At(state.meshChunks, p)
             IN  /\ c.meshId \in Indices(state.scene.meshes)
                 /\ c.meshMaterialIndex
                        \in Indices(At(state.scene.meshes, c.meshId).materials)
        /\ \A p, q \in Indices(state.meshChunks) :
             p < q => KeyLess(ChunkKey(At(state.meshChunks, p)),
                              ChunkKey(At(state.meshChunks, q)))

\* A document whose first slot is empty and whose second slot has faces of
\* two kinds is open.
C1_Witness ==
    /\ state.opened
    /\ \E i \in Indices(state.scene.meshes) :
         LET slots == At(state.scene.meshes, i).materials
         IN  /\ Size(slots) = 2
             /\ Faces(At(slots, 0)) = 0
             /\ Cardinality({k \in 1 .. 3 :
                    FaceCount(At(slots, 1), Primitives[k]) > 0}) = 2
    /\ Size(state.meshChunks) = 2

SumOver(S, f(_)) == SumSeq([k \in 1 .. Len(SeqOfSet(S)) |-> f(SeqOfSet(S)[k])])

\* C2: after open, the {baseIndex, count} ranges of the meshes partition the
\* chunk array in mesh order, every chunk of a range belongs to its mesh,
\* and meshCount() is the sum of the counts.
C2_ChunkRangesPartition ==
    state.opened =>
        LET map == state.meshChunkMapping
            total == SumSeq([k \in 1 .. Len(map) |-> map[k].count])
        IN  /\ Size(map) = Size(state.scene.meshes)
            /\ Size(map) > 0 => At(map, 0).baseIndex = 0
            /\ \A i \in Indices(map) :
                 /\ At(map, i).count >= 0
                 /\ (i + 1) \in Indices(map) =>
                      At(map, i + 1).baseIndex
                          = At(map, i).baseIndex + At(map, i).count
                 /\ \A p \in ChunkRange(i) :
                      /\ p \in Indices(state.meshChunks)
                      /\ At(state.meshChunks, p).meshId = i
                 /\ \A j \in Indices(map) :
                      i # j => ChunkRange(i) \cap ChunkRange(j) = {}
            /\ Size(state.meshChunks) = total
            /\ result.op = "meshCount" => result.value = total

\* meshCount() was asked of a document with two meshes that both have
\* chunks.
C2_Witness ==
    /\ state.opened
    /\ result.op = "meshCount"
    /\ Size(state.meshChunkMapping) = 2
    /\ At(state.meshChunkMapping, 0).count > 0
    /\ At(state.meshChunkMapping, 1).count > 0

\* Faces of one kind in a whole mesh: every face lies in one material slot.
KindTotal(mesh, primitive) ==
    SumSeq([k \in 1 .. Len(mesh.materials) |-> FaceCount(mesh.materials[k], primitive)])

ChunkFaces(p, primitive) ==
    LET c == At(state.meshChunks, p)
    IN  IF c.primitive = primitive
        THEN FaceCount(At(At(state.scene.meshes, c.meshId).materials,
                          c.meshMaterialIndex), primitive)
        ELSE 0

Covered(i, primitive) ==
    LET F(p) == ChunkFaces(p, primitive)
    IN  SumOver(ChunkRange(i), F)

\* C3: after open, the chunks of a mesh cover all its faces of each kind,
\* no chunk is empty, and mesh(id) of any chunk has a non-zero index count.
C3_ChunksCoverAllFaces ==
    state.opened =>
        /\ \A i \in Indices(state.scene.meshes) :
             \A k \in 1 .. 3 :
               Covered(i, Primitives[k])
                   = KindTotal(At(state.scene.meshes, i), Primitives[k])
        /\ \A p \in Indices(state.meshChunks) :
             ChunkFaces(p, At(state.meshChunks, p).primitive) > 0
        /\ result.op = "mesh" => result.indexCount > 0

\* mesh(id) was asked of a mesh whose faces of one kind are spread over two
\* material slots.
C3_Witness ==
    /\ state.opened
    /\ result.op = "mesh"
    /\ \E i \in Indices(state.scene.meshes) :
         LET slots == At(state.scene.meshes, i).materials
         IN  /\ Size(slots) = 2
             /\ \E k \in 1 .. 3 :
                  /\ FaceCount(At(slots, 0), Primitives[k]) > 0
                  /\ FaceCount(At(slots, 1), Primitives[k]) > 0

(***************************************************************************)
(* Object flattening.                                                      *)
(***************************************************************************)
SceneReturned == result.op = "scene" /\ pc = "running"

Nodes == state.scene.nodes

ObjectIds == 0 .. (state.objectCount - 1)

\* C4: with the root elided, objectCount() is the node count less one,
\* source node k is object k - 1, and an object's parent is -1 exactly when
\* its source parent is the root or absent and otherwise the object id of
\* its source parent, which is below objectCount().
C4_ObjectIdDensity ==
    (state.opened /\ ~state.preserveRootNode) =>
        /\ state.objectCount = Size(Nodes) - 1
        /\ state.nodeIdOffset = 1
        /\ result.op = "objectCount" => result.value = Size(Nodes) - 1
        /\ SceneReturned =>
             \A k \in 1 .. (Size(Nodes) - 1) :
               LET node == At(Nodes, k)
                   parent == At(result.data.parents, k - 1)
                   rootless == node.parent = NoParent \/ node.parent = 0
               IN  /\ At(result.data.nodeObjects, k - 1) = k - 1
                   /\ At(result.data.translations, k - 1) = node.local_transform
                   /\ (parent = 0 - 1) <=> rootless
                   /\ ~rootless => /\ parent \in ObjectIds
                                   /\ parent = node.parent - 1

\* scene() returned for a document with the root elided, a node directly
\* under the root and a node under another node.
C4_Witness ==
    /\ state.opened
    /\ ~state.preserveRootNode
    /\ SceneReturned
    /\ \E k \in Indices(Nodes) : At(Nodes, k).parent = 0
    /\ \E k \in Indices(Nodes) : At(Nodes, k).parent > 0

\* C5: the root is retained (nodeIdOffset 0, objectCount the node count) if
\* and only if preserveRootNode is set or unitNormalizationHandling is
\* transformRoot, and is elided (nodeIdOffset 1) otherwise.
C5_RootRetainedIffConfigured ==
    state.opened =>
        IF conf.preserveRootNode \/ conf.unitNormalizationHandling = "transformRoot"
        THEN state.nodeIdOffset = 0 /\ state.objectCount = Size(Nodes)
        ELSE state.nodeIdOffset = 1 /\ state.objectCount = Size(Nodes) - 1

(***************************************************************************)
(* Instance binding.                                                       *)
(***************************************************************************)
\* The source node of an object.
NodeOfObject(o) == At(Nodes, o + state.nodeIdOffset)

AttachedChunks(node) ==
    SumSeq([k \in 1 .. Len(node.all_attribs) |->
               IF node.all_attribs[k].type = "mesh"
               THEN At(state.meshChunkMapping, node.all_attribs[k].id).count
               ELSE 0])

Attached(node, type) ==
    Len(SelectSeq(node.all_attribs, LAMBDA e : e.type = type))

\* C6: the records the fill pass of scene() writes are as many as the first
\* pass counted, for meshes, lights and cameras, so the three assertions
\* hold and no write is out of bounds; the mesh-instance total is the sum
\* over the objects of the chunk counts of their meshes.
C6_CountThenFill ==
    result.op = "scene" =>
        /\ result.assertMesh
        /\ result.assertLight
        /\ result.assertCamera
        /\ ~result.data.outOfBounds
        /\ LET C(o) == AttachedChunks(NodeOfObject(o))
               L(o) == Attached(NodeOfObject(o), "light")
               K(o) == Attached(NodeOfObject(o), "camera")
           IN  /\ result.meshCount = SumOver(ObjectIds, C)
               /\ result.lightCount = SumOver(ObjectIds, L)
               /\ result.cameraCount = SumOver(ObjectIds, K)

\* C7: the material of every mesh-instance record is the material the
\* instancing node has for the chunk's material slot if it has one, and the
\* slot's declared material (-1 if none) otherwise.
C7_MaterialOfSlot ==
    result.op = "scene" =>
        \A r \in Indices(result.data.meshes) :
            r < result.data.meshMaterialOffset =>
                LET chunk == At(state.meshChunks, At(result.data.meshes, r))
                    node == NodeOfObject(At(result.data.meshMaterialObjects, r))
                    slot == chunk.meshMaterialIndex
                    mat == At(At(state.scene.meshes, chunk.meshId).materials, slot)
                IN  At(result.data.meshMaterials, r)
                        = IF slot < Size(node.materials)
                          THEN At(node.materials, slot)
                          ELSE mat.material

\* Mesh-instance records that bind a chunk of mesh m to object o.
MeshRecords(o, m) ==
    {r \in Indices(result.data.meshes) :
        /\ r < result.data.meshMaterialOffset
        /\ At(result.data.meshMaterialObjects, r) = o
        /\ At(result.data.meshes, r) \in ChunkRange(m)}

\* Objects that are the helper of object o.
HelpersOf(o) ==
    {h \in ObjectIds :
        /\ At(result.data.geometryTransformHelpers, h) = 1
        /\ At(result.data.parents, h) = o}

\* C8: with helperNodes, for a node N that has a geometry transform and an
\* attached mesh, the mesh instances of an unskinned mesh are bound to the
\* helper object of N (helper flag set, parent N) and not to N, and those of
\* a skinned mesh are bound to N.
C8_HelperRedirection ==
    (SceneReturned /\ conf.geometryTransformHandling = "helperNodes") =>
        \A i \in Indices(document.nodes) :
            LET n == At(document.nodes, i)
                o == i - state.nodeIdOffset
            IN  (n.geom /\ o >= 0) =>
                  \A k \in 1 .. Len(n.attribs) :
                    LET e == n.attribs[k]
                        chunks == CountElement(n.attribs, e)
                                      * At(state.meshChunkMapping, e.id).count
                    IN  e.type = "mesh" =>
                          IF At(document.meshes, e.id).skinned
                          THEN /\ Cardinality(MeshRecords(o, e.id)) = chunks
                               /\ \A h \in HelpersOf(o) : MeshRecords(h, e.id) = {}
                          ELSE /\ MeshRecords(o, e.id) = {}
                               /\ \E h \in HelpersOf(o) :
                                    /\ h # o
                                    /\ Cardinality(MeshRecords(h, e.id)) = chunks

\* scene() returned, with helperNodes, for a node with a geometry transform
\* and an unskinned mesh.
C8_Witness ==
    /\ SceneReturned
    /\ conf.geometryTransformHandling = "helperNodes"
    /\ \E i \in Indices(document.nodes) :
         LET n == At(document.nodes, i)
         IN  /\ n.geom
             /\ i - state.nodeIdOffset >= 0
             /\ n.attribs = <<Element("mesh", 0)>>
             /\ HelpersOf(i - state.nodeIdOffset) # {}

Textures == state.scene.textures

FilesBefore(t) ==
    Cardinality({u \in Indices(Textures) : u < t /\ At(Textures, u).has_file})

\* C10: exactly the textures with a file get a resident id, densely in
\* source order; the others map to -1; textureCount() is the number of
\* textures with a file; the remap table and the resident list are inverse
\* to each other; textureForName() of a texture without a file is -1.
C10_TextureRemap ==
    state.opened =>
        /\ Size(state.textureRemap) = Size(Textures)
        /\ \A t \in Indices(Textures) :
             LET id == At(state.textureRemap, t)
             IN  IF At(Textures, t).has_file
                 THEN /\ id = FilesBefore(t)
                      /\ id \in Indices(state.textures)
                      /\ At(state.textures, id).textureIndex = t
                 ELSE id = 0 - 1
        /\ Size(state.textures) = FilesBefore(Size(Textures))
        /\ \A r \in Indices(state.textures) :
             At(state.textureRemap, At(state.textures, r).textureIndex) = r
        /\ result.op = "textureCount" =>
             result.value = FilesBefore(Size(Textures))
        /\ (result.op = "textureForName" /\ result.element >= 0
                /\ ~At(Textures, result.element).has_file) =>
             result.value = 0 - 1

\* textureForName() found a texture without a file in a document where a
\* texture with a file follows one without.
C10_Witness ==
    /\ state.opened
    /\ result.op = "textureForName"
    /\ result.element >= 0
    /\ ~At(Textures, result.element).has_file
    /\ \E t \in Indices(Textures) :
         At(state.textureRemap, t) >= 0 /\ At(state.textureRemap, t) < t

(***************************************************************************)
(* Image importer cache.                                                   *)
(***************************************************************************)
\* The image queries of the log that made the image importer open image id.
AttemptsFor(id) ==
    {k \in DOMAIN imageLog : imageLog[k].id = id /\ imageLog[k].attempt}

\* C11: over the image2D() / image2DLevelCount() queries on one open
\* document, a query for the same image id as the query just before it
\* makes no open attempt, prints nothing and gets the importer (or the
\* miss) the query before it got; so every run of queries on one id makes
\* at most one open attempt.
C11_ImporterReusedForRepeatedId ==
    \A k \in DOMAIN imageLog :
        (k > 1 /\ imageLog[k].id = imageLog[k - 1].id)
            => /\ ~imageLog[k].attempt
               /\ imageLog[k].out = <<>>
               /\ imageLog[k].importer = imageLog[k - 1].importer

\* The second query repeated the id of the first, which had made the image
\* importer open the image, and was served from the cache.
C11_Witness ==
    /\ Len(imageLog) >= 2
    /\ imageLog[1].id = imageLog[2].id
    /\ imageLog[1].attempt
    /\ ~imageLog[2].attempt
    /\ state.imageImporterId = imageLog[2].id

\* C11 as stated: at most one open attempt per distinct image id over the
\* whole sequence of queries.
C11_AtMostOneAttemptPerId ==
    \A id \in 0 .. (MaxFiles - 1) : Cardinality(AttemptsFor(id)) <= 1

(***************************************************************************)
(* Reopening.                                                              *)
(***************************************************************************)
\* The Document an open call leaves in an importer nothing was opened in
\* before.
FreshOpen(call) ==
    IF call.op = "openData"
    THEN CgltfImporter_doOpenData(NullDocument, call.file, conf).d
    ELSE CgltfImporter_doOpenFile(call.filename, call.file, conf).d

\* C12: no state survives a close or a failed open: after any sequence of
\* openFile / openData / close calls, the Document of a successfully opened
\* file is the one its open call alone produces; a file opened from bytes
\* has no filePath, no name map and no cached image importer.
C12_NoStateSurvives ==
    (CgltfImporter_doIsOpened(state) /\ result.op \in {"openData", "openFile"})
        => state = FreshOpen(document)

(***************************************************************************)
(* Failures at open.                                                       *)
(***************************************************************************)
InvalidEnumConfiguration(c) ==
    \/ c.geometryTransformHandling
           \notin {"preserve", "helperNodes", "modifyGeometry"}
    \/ c.unitNormalizationHandling \notin {"transformRoot", "adjustTransforms"}

\* C13: with a geometryTransformHandling or unitNormalizationHandling value
\* outside the accepted ones, openData() and openFile() fail with one error
\* line that names the unsupported option, the parser is not called, no
\* state is created and the importer is not opened.
C13_InvalidConfigurationFatalAtOpen ==
    (result.op \in {"openData", "openFile"} /\ InvalidEnumConfiguration(conf))
        => /\ ~result.ok
           /\ ~result.parsed
           /\ Len(result.out) = 1
           /\ result.out[1][1] = "Trade::UfbxImporter::" \o result.op \o "():"
           /\ result.out[1][2] \in
                  {"Unsupported unitNormalizationHandling configuration:",
                   "Unsupported geometryTransformHandling configuration:"}
           /\ state = NoState
           /\ ~state.opened
           /\ document = NoDocument

\* openFile() was refused for an unsupported geometryTransformHandling,
\* the other option being valid.
C13_Witness ==
    /\ result.op = "openFile"
    /\ ~result.ok
    /\ conf.geometryTransformHandling = "bogus"
    /\ conf.unitNormalizationHandling = "adjustTransforms"
    /\ result.out[1][3] = "bogus"

\* The k-th ancestor of node i, -1 once the chain has ended.
RECURSIVE Ancestor(_, _, _)
Ancestor(parents, i, k) ==
    IF k = 0 \/ i = NoParent THEN i
    ELSE Ancestor(parents, At(parents, i), k - 1)

\* The parent chain of node i revisits a node: it has not ended after as
\* many steps as there are nodes.
ChainCyclic(parents, i) == Ancestor(parents, i, Len(parents)) # NoParent

HasParentCycle(parents) == \E i \in Indices(parents) : ChainCyclic(parents, i)

UnsupportedRequired(file) ==
    {k \in DOMAIN file.extensionsRequired :
        file.extensionsRequired[k] \notin supportedExtensions}

BadVersions(file) ==
    \/ file.minVersion # NoVersion /\ file.minVersion # <<"2", ".", "0">>
    \/ file.version # NoVersion
           /\ (Len(file.version) < 2 \/ file.version[1] # "2"
                  \/ file.version[2] # ".")

\* The last open call handed bytes to doOpenData.
OpenDataCalled ==
    result.op \in {"openData", "openFile"} /\ document.file # Unreadable

\* C14: doOpenData fails as a whole when parsing fails, when minVersion is
\* present and not "2.0", when version is present and does not start with
\* "2.", when a required extension is not supported and
\* ignoreRequiredExtensions is off, or when the nodes have a parent cycle:
\* the Document is discarded and isOpened() is false; with
\* ignoreRequiredExtensions on, unsupported required extensions only print
\* one warning each and the file opens.
C14_FatalAtOpen ==
    OpenDataCalled =>
        LET file == document.file
            parsed == file.result = "cgltf_result_success"
        IN  /\ (\/ ~parsed
                \/ BadVersions(file)
                \/ UnsupportedRequired(file) # {} /\ ~conf.ignoreRequiredExtensions
                \/ HasParentCycle(file.parents))
                   => /\ state = NullDocument
                      /\ ~CgltfImporter_doIsOpened(state)
                      /\ ~result.ok
                      /\ result.out # <<>>
                      /\ result.out[Len(result.out)].level = "Error"
            /\ (/\ parsed
                /\ ~BadVersions(file)
                /\ ~HasParentCycle(file.parents)
                /\ conf.ignoreRequiredExtensions)
                   => /\ CgltfImporter_doIsOpened(state)
                      /\ result.ok
                      /\ Len(result.out) = Cardinality(UnsupportedRequired(file))
                      /\ \A k \in DOMAIN result.out :
                            result.out[k].level = "Warning"

\* A file whose only fault is an unsupported required extension was
\* refused with ignoreRequiredExtensions off.
C14_Witness ==
    /\ OpenDataCalled
    /\ ~conf.ignoreRequiredExtensions
    /\ UnsupportedRequired(document.file) # {}
    /\ document.file.result = "cgltf_result_success"
    /\ ~BadVersions(document.file)
    /\ ~HasParentCycle(document.file.parents)
    /\ state = NullDocument
    /\ ~result.ok

(***************************************************************************)
(* Cycle detection.                                                        *)
(***************************************************************************)
CyclicNodes(parents) == {i \in Indices(parents) : ChainCyclic(parents, i)}

\* The last open call printed the cycle error.
CycleErrorPrinted ==
    /\ result.out # <<>>
    /\ result.out[Len(result.out)].level = "Error"
    /\ result.out[Len(result.out)].text[1] =
           "Trade::CgltfImporter::openData(): node tree contains cycle starting at node"

\* doOpenData reached the cycle search: the file parsed and passed the
\* version and extension checks.
CycleSearchReached ==
    /\ OpenDataCalled
    /\ document.file.result = "cgltf_result_success"
    /\ ~BadVersions(document.file)
    /\ UnsupportedRequired(document.file) = {} \/ conf.ignoreRequiredExtensions

\* C15: a file that reaches the cycle search is refused with the cycle
\* error iff the parent chain of some node revisits a node (a node that is
\* its own parent and a chain that leads into a cycle included); the node
\* reported is the lowest-indexed node whose chain is cyclic; and in every
\* opened file the parent chain of every node ends at a parentless node
\* within nodeCount steps.
C15_CycleDetection ==
    /\ CycleSearchReached =>
           LET cyclic == CyclicNodes(document.file.parents)
           IN  /\ CycleErrorPrinted <=> cyclic # {}
               /\ cyclic # {} =>
                      /\ state = NullDocument
                      /\ result.out[Len(result.out)].text[2] \in cyclic
                      /\ \A i \in cyclic :
                            result.out[Len(result.out)].text[2] <= i
               /\ cyclic = {} => CgltfImporter_doIsOpened(state)
    /\ CgltfImporter_doIsOpened(state) =>
           \A i \in Indices(state.data.parents) :
               Ancestor(state.data.parents, i, Len(state.data.parents)) = NoParent

\* A file was refused for a chain that only leads into a cycle, and the
\* node reported is not node 0, whose chain ends.
C15_Witness ==
    /\ CycleSearchReached
    /\ CycleErrorPrinted
    /\ result.out[Len(result.out)].text[2] = 1
    /\ 0 \notin CyclicNodes(document.file.parents)
    /\ At(document.file.parents, 1) = 2
    /\ At(document.file.parents, 2) = 2

(***************************************************************************)
(* Configuration and queries.                                              *)
(***************************************************************************)
\* C16: the configuration is read once, at open: of two scene() calls on
\* one opened file with nothing but configuration changes between them,
\* the second returns what the first returned.
C16_ConfigurationReadAtOpen ==
    [][(/\ state.opened
        /\ state' = state
        /\ result.op = "scene"
        /\ result'.op = "scene") => result' = result]_vars

(***************************************************************************)
(* Determinism.                                                            *)
(***************************************************************************)
\* The State a new importer with the current configuration builds for the
\* opened document.
FreshState ==
    LET opts == getLoadOptsFromConfiguration(conf, "")
    IN  openInternal(ufbx_load(document, opts), opts, state.fromFile)

\* The tables of a SceneData: those of numbers and those of transforms.
SceneTables(data) ==
    <<data.nodeObjects, data.parents, data.visibilities,
      data.geometryTransformHelpers, data.meshMaterialObjects, data.meshes,
      data.meshMaterials, data.cameraObjects, data.cameras,
      data.lightObjects, data.lights>>

SceneTransformTables(data) ==
    <<data.translations, data.rotations, data.scalings,
      data.geometryTranslations, data.geometryRotations,
      data.geometryScalings>>

Uninitialised(table, garbage) == \E k \in DOMAIN table : table[k] = garbage

C18_FailedOpenReporting ==
    (result.op \in {"openData", "openFile"} /\ ~result.ok)
        => /\ ~state.opened
           /\ Len(result.out) = 1
           /\ result.out[1] \in
                  {"Trade::UfbxImporter::openData(): loading failed: Unrecognized file format"}
                      \cup {"Trade::UfbxImporter::openData(): loading failed: File not found: " \o f :
                               f \in MissingNames}

(***************************************************************************)
(* Scene fields.                                                           *)
(***************************************************************************)
FieldSet(fields) == {fields[k] : k \in DOMAIN fields}

\* C19: under the default configuration the scene of a document whose
\* objects refer to at least one mesh and to no light or camera has exactly
\* 6 fields, Parent, Translation, Rotation, Scaling, Mesh and MeshMaterial
\* among them; Mesh and MeshMaterial are present iff there is a mesh
\* instance, Light iff there is a light instance, Camera iff there is a
\* camera instance.
C19_SceneFieldSet ==
    (SceneReturned /\ conf = DefaultConfiguration) =>
        /\ (result.meshCount >= 1 /\ result.lightCount = 0
                /\ result.cameraCount = 0)
               => /\ Len(result.fields) = 6
                  /\ {"Parent", "Translation", "Rotation", "Scaling", "Mesh",
                      "MeshMaterial"} \subseteq FieldSet(result.fields)
        /\ "Mesh" \in FieldSet(result.fields) <=> result.meshCount >= 1
        /\ "MeshMaterial" \in FieldSet(result.fields) <=> result.meshCount >= 1
        /\ "Light" \in FieldSet(result.fields) <=> result.lightCount >= 1
        /\ "Camera" \in FieldSet(result.fields) <=> result.cameraCount >= 1


(***************************************************************************)
(* Queries that fail for one entity.                                       *)
(***************************************************************************)
EntityQueries == {"camera", "light", "texture"}

\* The "source" values of the recognised extension objects of a texture, in
\* document order.
RECURSIVE ExtensionSources(_)
ExtensionSources(extensions) ==
    IF extensions = <<>> THEN <<>>
    ELSE LET e == Head(extensions)
         IN  (IF e.name \in {"GOOGLE_texture_basis", "MSFT_texture_dds"}
                     /\ e.sources # <<>>
              THEN <<e.sources[Len(e.sources)]>>
              ELSE <<>>) \o ExtensionSources(Tail(extensions))

\* The entity a query names is one of those the formats cannot express in
\* the importer's result: an unsupported FBX light type; an invalid glTF
\* camera type; a glTF light of invalid type, a spot light whose cone angles
\* are not 0 <= inner < outer < 90 degrees, a directional light with a range;
\* a glTF texture without a KHR_texture_basisu image whose first extension
\* source is out of bounds, or that has no extension source and no image.
FailsFor(st, op, id) ==
    IF "null" \notin DOMAIN st
    THEN At(st.scene.lights, id).type
             \in {"UFBX_LIGHT_AREA", "UFBX_LIGHT_VOLUME"}
    ELSE IF op = "camera"
    THEN At(st.data.cameras, id).type = "cgltf_camera_type_invalid"
    ELSE IF op = "light"
    THEN LET l == At(st.data.lights, id)
         IN  \/ l.type = "cgltf_light_type_invalid"
             \/ /\ l.type = "cgltf_light_type_spot"
                /\ ~(/\ 0 <= l.spot_inner_cone_angle
                     /\ l.spot_inner_cone_angle < l.spot_outer_cone_angle
                     /\ l.spot_outer_cone_angle < 90)
             \/ l.type = "cgltf_light_type_directional" /\ l.range # 0
    ELSE LET t == At(st.data.textures, id)
             sources == ExtensionSources(t.extensions)
         IN  /\ t.basisu = 0 - 1
             /\ IF sources # <<>>
                THEN sources[1] \notin Indices(st.data.images)
                ELSE t.image = 0 - 1

StillOpened(st) ==
    IF "null" \in DOMAIN st THEN CgltfImporter_doIsOpened(st) ELSE st.opened

\* C20: a light, camera or texture query fails exactly for an entity of the
\* kinds above; a failed query prints an error, returns nothing, and leaves
\* the importer opened with the whole imported state, configuration and
\* image importer cache as they were, so every later query starts from the
\* state it would have started from without the failed one.
C20_FailedQueryIsolated ==
    [][result'.op \in EntityQueries =>
           /\ result'.ok = ~FailsFor(state, result'.op, result'.id)
           /\ ~result'.ok =>
                  /\ Len(result'.out) = 1
                  /\ result'.op = "texture" => result'.value = NoImage
                  /\ result'.op = "camera" => result'.value = "none"
                  /\ (result'.op = "light" /\ IsCgltfImporter)
                         => result'.value = <<>>
                  /\ (result'.op = "light" /\ ~IsCgltfImporter)
                         => result'.value = "none"
                  /\ StillOpened(state')
                  /\ state' = state
                  /\ conf' = conf
                  /\ document' = document
                  /\ imageLog' = imageLog]_vars

\* A spot light whose cone angles are out of bounds was queried in a file
\* with a second light, and the importer is still opened.
C20_Witness ==
    /\ IsCgltfImporter
    /\ CgltfImporter_doIsOpened(state)
    /\ result.op = "light"
    /\ ~result.ok
    /\ Size(state.data.lights) = 2
    /\ At(state.data.lights, result.id).type = "cgltf_light_type_spot"
    /\ At(state.data.lights, result.id).spot_outer_cone_angle = 90


(***************************************************************************)
(* External images without a base directory.                               *)
(***************************************************************************)
ImageQueries == {"image2D", "image2DLevelCount"}

\* C21: in a document opened from bytes, with no file callback, an image
\* query on an external image makes no attempt to open a file; image2D()
\* fails, image2DLevelCount() returns 1, the only diagnostic such a query
\* can print is the "external images" error, and the document stays open.
C21_ExternalImageUnavailable ==
    (/\ result.op \in ImageQueries
     /\ document.op = "openData"
     /\ At(document.file.images, result.id).uri = "external")
        => /\ CgltfImporter_doIsOpened(state)
           /\ ~imageLog[Len(imageLog)].attempt
           /\ result.op = "image2D" => ~result.ok
           /\ result.op = "image2DLevelCount" => result.value = 1
           /\ result.out \in
                  {<<>>,
                   <<Diagnostic("Error",
                       <<"Trade::CgltfImporter::" \o result.op \o "():",
                         "external images can be imported only when opening files from the filesystem or if a file callback is present">>)>>}


(***************************************************************************)
(* Scene hierarchy of a glTF file.                                         *)
(***************************************************************************)
GltfSceneReturned ==
    /\ IsCgltfImporter
    /\ CgltfImporter_doIsOpened(state)
    /\ result.op = "scene"
    /\ ~result.undefined

\* The children of the nodes of a level, in order.
RECURSIVE ChildrenOfLevel(_, _)
ChildrenOfLevel(data, level) ==
    IF level = <<>> THEN <<>>
    ELSE At(data.nodes, Head(level)).children
             \o ChildrenOfLevel(data, Tail(level))

\* A level of the hierarchy followed by all levels below it.
RECURSIVE BreadthFirst(_, _)
BreadthFirst(data, level) ==
    IF level = <<>> THEN <<>>
    ELSE level \o BreadthFirst(data, ChildrenOfLevel(data, level))

\* C22: the object list of a scene is its root list followed by the
\* children in breadth-first order; the parent emitted at position j is -1
\* for a position of the root list and otherwise the node that lists
\* objects[j] as a child; the child range created k+1-th is the range of
\* positions holding the children of objects[k].
C22_ParentResynthesis ==
    GltfSceneReturned =>
        LET data == state.data
            roots == At(data.scenes, result.id).nodes
        IN  /\ result.objects = BreadthFirst(data, roots)
            /\ Len(result.parents) = Len(result.objects)
            /\ \A j \in Indices(result.objects) :
                   At(result.parents, j) =
                       IF j < Size(roots) THEN 0 - 1
                       ELSE At(data.parents, At(result.objects, j))
            /\ Size(result.children) = Size(result.objects) + 1
            /\ \A k \in Indices(result.objects) :
                   LET range == At(result.children, k + 1)
                   IN  SubSeq(result.objects, range.min + 1, range.max)
                           = At(data.nodes, At(result.objects, k)).children


\* The number of positions of the object list whose node satisfies P.
CountWhere(data, objects, P(_)) ==
    Cardinality({k \in DOMAIN objects : P(At(data.nodes, objects[k]))})

RECURSIVE PrimitiveSum(_, _)
PrimitiveSum(data, objects) ==
    IF objects = <<>> THEN 0
    ELSE (IF At(data.nodes, Head(objects)).mesh = 0 - 1 THEN 0
          ELSE At(data.meshes, At(data.nodes, Head(objects)).mesh))
             + PrimitiveSum(data, Tail(objects))

AllWritten(table) == \A k \in DOMAIN table : table[k] # Garbage

\* C23: for every scene the fill pass writes exactly as many
\* transformation, TRS, mesh, light, camera and skin records as the count
\* pass sized the arrays for: the assertion after the fill loop holds, no
\* write is out of bounds and no record is left unwritten. The TRS table has
\* one record per object with a translation, rotation or scale; the
\* transformation table one per object with any transformation, a node with
\* matrix and TRS counted once, and none at all when every transformed
\* object has TRS; the mesh table one record per primitive of the mesh of
\* each listed object.
C23_CountThenFill ==
    GltfSceneReturned =>
        LET data == state.data
            objects == result.objects
            t == result.arrays
            trs(node) == node.has_translation \/ node.has_rotation
                             \/ node.has_scale
            transformed(node) == node.has_matrix \/ trs(node)
            lit(node) == node.light # 0 - 1
            filmed(node) == node.camera # 0 - 1
            skinned(node) == node.skin # 0 - 1
        IN  /\ result.asserted
            /\ pc = "running"
            /\ ~t.outOfBounds
            /\ Len(t.trsObjects) = CountWhere(data, objects, trs)
            /\ Len(t.transformationObjects) =
                   IF CountWhere(data, objects, transformed)
                          = CountWhere(data, objects, trs)
                   THEN 0 ELSE CountWhere(data, objects, transformed)
            /\ Len(t.meshes) = PrimitiveSum(data, objects)
            /\ Len(t.meshMaterialObjects) = Len(t.meshes)
            /\ Len(t.lights) = CountWhere(data, objects, lit)
            /\ Len(t.cameras) = CountWhere(data, objects, filmed)
            /\ Len(t.skins) = CountWhere(data, objects, skinned)
            /\ \A table \in {t.transformationObjects, t.trsObjects,
                             t.translations, t.rotations, t.scalings,
                             t.meshMaterialObjects, t.meshes, t.lightObjects,
                             t.lights, t.cameraObjects, t.cameras,
                             t.skinObjects, t.skins} : AllWritten(table)
            /\ Len(t.translations) \in {0, Len(t.trsObjects)}
            /\ Len(t.rotations) \in {0, Len(t.trsObjects)}
            /\ Len(t.scalings) \in {0, Len(t.trsObjects)}
            /\ Len(t.meshMaterials) \in {0, Len(t.meshes)}

\* A scene with a node that has both a matrix and TRS, a node with only a
\* matrix, and a mesh with two primitives: both transformation tables are
\* kept.
C23_Witness ==
    /\ GltfSceneReturned
    /\ Len(result.arrays.transformationObjects) = 2
    /\ Len(result.arrays.trsObjects) = 1
    /\ Len(result.arrays.meshes) >= 2


(***************************************************************************)
(* Multi-primitive mesh map.                                               *)
(***************************************************************************)
\* The number of primitives of the meshes before mesh i.
RECURSIVE PrimitivesBefore(_, _)
PrimitivesBefore(meshes, i) ==
    IF i = 0 THEN 0 ELSE PrimitivesBefore(meshes, i - 1) + At(meshes, i - 1)

\* The mesh ids scene() emits for the listed objects, in order.
RECURSIVE MeshIdsOf(_, _)
MeshIdsOf(data, objects) ==
    IF objects = <<>> THEN <<>>
    ELSE LET mesh == At(data.nodes, Head(objects)).mesh
         IN  (IF mesh = 0 - 1 THEN <<>>
              ELSE [j \in 1 .. At(data.meshes, mesh) |->
                       PrimitivesBefore(data.meshes, mesh) + j - 1])
                 \o MeshIdsOf(data, Tail(objects))

\* C24: after open meshSizeOffsets is the prefix sum of the primitive
\* counts, starting at 0 and ending at meshCount(); meshMap at
\* meshSizeOffsets[i] + j is (i, j); scene() emits meshSizeOffsets[i] + j,
\* below meshCount(), for primitive j of mesh i; meshForName returns the id
\* of the first primitive of the first mesh of that name, -1 without one.
C24_MeshMap ==
    (IsCgltfImporter /\ CgltfImporter_doIsOpened(state)) =>
        LET meshes == state.data.meshes
            offsets == state.meshSizeOffsets
        IN  /\ Size(offsets) = Size(meshes) + 1
            /\ At(offsets, 0) = 0
            /\ At(offsets, Size(meshes)) = Size(state.meshMap)
            /\ \A i \in Indices(meshes) :
                   /\ At(offsets, i) = PrimitivesBefore(meshes, i)
                   /\ \A j \in 0 .. (At(meshes, i) - 1) :
                          /\ At(offsets, i) + j < Size(state.meshMap)
                          /\ At(state.meshMap, At(offsets, i) + j) = <<i, j>>
            /\ result.op = "meshCount" =>
                   result.value = PrimitivesBefore(meshes, Size(meshes))
            /\ (result.op = "scene" /\ ~result.undefined) =>
                   /\ result.arrays.meshes
                          = MeshIdsOf(state.data, result.objects)
                   /\ \A k \in DOMAIN result.arrays.meshes :
                          result.arrays.meshes[k] < Size(state.meshMap)
            /\ result.op = "meshForName" =>
                   LET named == {i \in Indices(meshes) :
                                    At(state.data.meshNames, i) = result.name}
                   IN  result.value =
                           IF named = {} THEN 0 - 1
                           ELSE PrimitivesBefore(
                                    meshes,
                                    CHOOSE i \in named : \A j \in named : i <= j)

\* The scene of a file with two multi-primitive meshes of the same name was
\* imported: the second mesh starts after the primitives of the first.
C24_Witness ==
    /\ GltfSceneReturned
    /\ Size(state.data.meshes) = 2
    /\ At(state.data.meshes, 0) >= 2
    /\ At(state.data.meshes, 1) >= 2
    /\ At(state.data.meshNames, 0) = At(state.data.meshNames, 1)
    /\ result.arrays.meshes[1] = At(state.data.meshes, 0)


\* Whether the open plugin's image importer can open image id: the image
\* is reachable without a file callback and the image importer opens it
\* (with exactly one 2D image, for UfbxImporter).
ImageOpens(id) ==
    IF IsCgltfImporter
    THEN LET image == At(state.data.images, id)
         IN  /\ image.opens
             /\ image.uri = "external" => state.filePath # <<>>
    ELSE LET file == At(state.scene.texture_files, id)
         IN  /\ file.opens
             /\ file.image2DCount = 1
             /\ file.embedded \/ state.fromFile

\* Whether the plugin has a file opened.
PluginOpened ==
    IF IsCgltfImporter THEN CgltfImporter_doIsOpened(state) ELSE state.opened

\* C25: after any sequence of image queries on an opened file the cache
\* holds the id of the last query, and an importer only if that image
\* opened; a query for the id of the query before it attempts nothing,
\* prints nothing and returns what that query returned; a query for another
\* id (or the first one) returns an importer iff the image opens, so a
\* failure leaves the new id with no importer.
C25_ImageImporterCache ==
    (PluginOpened /\ imageLog # <<>>) =>
        LET last == imageLog[Len(imageLog)]
        IN  /\ state.imageImporterId = last.id
            /\ state.imageImporter = last.importer
            /\ state.imageImporter => ImageOpens(last.id)
            /\ \A k \in DOMAIN imageLog :
                   IF k > 1 /\ imageLog[k].id = imageLog[k - 1].id
                   THEN /\ ~imageLog[k].attempt
                        /\ imageLog[k].out = <<>>
                        /\ imageLog[k].importer = imageLog[k - 1].importer
                   ELSE /\ imageLog[k].importer = ImageOpens(imageLog[k].id)
                        /\ imageLog[k].importer => imageLog[k].attempt

\* An image failed to open, was asked for again, and then another image
\* opened.
C25_Witness ==
    /\ PluginOpened
    /\ Len(imageLog) = 3
    /\ imageLog[1].attempt /\ ~imageLog[1].importer
    /\ imageLog[2].id = imageLog[1].id
    /\ imageLog[3].id # imageLog[1].id
    /\ imageLog[3].importer
    /\ state.imageImporter

\* The attenuation a decay stands for: constant, linear, quadratic, and
\* quadratic in place of cubic.
AttenuationOf(decay) ==
    CASE decay = "UFBX_LIGHT_DECAY_NONE" -> <<1, 0, 0>>
      [] decay = "UFBX_LIGHT_DECAY_LINEAR" -> <<0, 1, 0>>
      [] decay = "UFBX_LIGHT_DECAY_QUADRATIC" -> <<0, 0, 1>>
      [] decay = "UFBX_LIGHT_DECAY_CUBIC" -> <<0, 0, 1>>

\* The warnings of kind prefix among the printed warnings.
WarningsOf(warnings, prefix) ==
    {k \in DOMAIN warnings : warnings[k][1] = prefix}

\* C26: light() succeeds for every point, directional and spot light and
\* prints no error; the attenuation is the one of the decay (quadratic for
\* cubic, with one warning), except that a directional light always gets
\* (1,0,0), with one patching warning exactly when the decay gave another
\* value; no other warning is printed.
C26_LightAttenuation ==
    (~IsCgltfImporter /\ state.opened /\ result.op = "light") =>
        LET light == At(state.scene.lights, result.id)
            derived == AttenuationOf(light.decay)
            cubic == WarningsOf(result.warnings,
                         "Trade::UfbxImporter::light(): cubic attenuation not supported, patching to quadratic")
            patched == WarningsOf(result.warnings,
                           "Trade::UfbxImporter::light(): patching attenuation")
        IN  light.type \in {"UFBX_LIGHT_POINT", "UFBX_LIGHT_DIRECTIONAL",
                            "UFBX_LIGHT_SPOT"} =>
                /\ result.ok
                /\ result.out = <<>>
                /\ result.value = light.type
                /\ result.attenuation =
                       IF light.type = "UFBX_LIGHT_DIRECTIONAL"
                       THEN <<1, 0, 0>> ELSE derived
                /\ Cardinality(cubic) =
                       IF light.decay = "UFBX_LIGHT_DECAY_CUBIC" THEN 1 ELSE 0
                /\ Cardinality(patched) =
                       IF light.type = "UFBX_LIGHT_DIRECTIONAL"
                          /\ derived # <<1, 0, 0>> THEN 1 ELSE 0
                /\ Len(result.warnings)
                       = Cardinality(cubic) + Cardinality(patched)

\* A directional light with cubic decay was imported: two warnings and the
\* constant attenuation.
C26_Witness ==
    /\ ~IsCgltfImporter
    /\ state.opened
    /\ result.op = "light"
    /\ result.ok
    /\ At(state.scene.lights, result.id).type = "UFBX_LIGHT_DIRECTIONAL"
    /\ At(state.scene.lights, result.id).decay = "UFBX_LIGHT_DECAY_CUBIC"
    /\ Len(result.warnings) = 2
    /\ result.attenuation = <<1, 0, 0>>

\* The number of sets imported of count sets under a configured limit: a
\* negative limit does not bound it.
Limited(count, limit) ==
    IF limit < 0 \/ count < limit THEN count ELSE limit

\* The attributes of one name among the written ones.
Named(attributeData, name) ==
    {k \in DOMAIN attributeData : attributeData[k].name = name}

\* C27: mesh() imports min(UV sets, maxUvSets) UV sets and min(colour sets,
\* maxColorSets) colour sets, a negative limit standing for no limit; at
\* most min(UV set count, maxTangentSets) tangent and bitangent sets, and
\* tangent (bitangent) set i only if every UV set before i has both and set
\* i has the tangent (bitangent); it writes attributeCount attributes, as
\* many of each name as counted, whose sizes add up to the stride, so both
\* assertions hold.
C27_AttributeSetLimits ==
    (~IsCgltfImporter /\ state.opened /\ result.op = "mesh") =>
        LET mesh == At(state.scene.meshes,
                       At(state.meshChunks, result.id).meshId)
            a == result.attributes
            sets == mesh.uv_sets
            complete(j) == /\ At(sets, j).vertex_tangent
                           /\ At(sets, j).vertex_bitangent
            bound == Limited(a.uvSetCount, conf.maxTangentSets)
        IN  /\ a.uvSetCount = Limited(Size(sets), conf.maxUvSets)
            /\ a.colorSetCount = Limited(mesh.color_sets, conf.maxColorSets)
            /\ a.tangentSetCount \in 0 .. bound
            /\ a.bitangentSetCount \in 0 .. bound
            /\ \A i \in 0 .. (a.tangentSetCount - 1) :
                   /\ \A j \in 0 .. (i - 1) : complete(j)
                   /\ At(sets, i).vertex_tangent
            /\ \A i \in 0 .. (a.bitangentSetCount - 1) :
                   /\ \A j \in 0 .. (i - 1) : complete(j)
                   /\ At(sets, i).vertex_bitangent
            /\ Len(a.attributeData) = a.attributeCount
            /\ Cardinality(Named(a.attributeData, "TextureCoordinates"))
                   = a.uvSetCount
            /\ Cardinality(Named(a.attributeData, "Tangent"))
                   = a.tangentSetCount
            /\ Cardinality(Named(a.attributeData, "Bitangent"))
                   = a.bitangentSetCount
            /\ Cardinality(Named(a.attributeData, "Color")) = a.colorSetCount
            /\ a.attributeOffset = a.stride
            /\ a.stride = 12 * (Cardinality(Named(a.attributeData, "Position"))
                                + Cardinality(Named(a.attributeData, "Normal"))
                                + a.tangentSetCount + a.bitangentSetCount)
                              + 8 * a.uvSetCount + 16 * a.colorSetCount
            /\ result.asserted
            /\ pc = "running"

\* A mesh was imported whose UV sets the limit cut down to one that has a
\* tangent and no bitangent, and whose colour sets the limit removed.
C27_Witness ==
    /\ ~IsCgltfImporter
    /\ state.opened
    /\ result.op = "mesh"
    /\ Size(At(state.scene.meshes, 0).uv_sets) = 2
    /\ At(state.scene.meshes, 0).color_sets = 2
    /\ conf.maxUvSets = 1
    /\ conf.maxColorSets = 0
    /\ conf.maxTangentSets < 0
    /\ result.attributes.uvSetCount = 1
    /\ result.attributes.tangentSetCount = 1
    /\ result.attributes.bitangentSetCount = 0
    /\ result.attributes.colorSetCount = 0

\* C28: objectForName returns -1 or an id below objectCount() whose
\* objectName is the name asked for.
C28_ObjectForName ==
    (~IsCgltfImporter /\ state.opened /\ result.op = "objectForName") =>
        \/ result.value = LongOfInt(0 - 1)
        \/ /\ result.value.high = 0
           /\ result.value.low >= 0
           /\ result.value.low < state.objectCount
           /\ At(state.scene.nodes,
                 result.value.low + state.nodeIdOffset).name = result.name

\* C29: scene() lists each node at most once, so the object list is no
\* longer than the node list, the child ranges stay within the nodes_count
\* + 1 reserved ones and are never reallocated while one of them is
\* referenced, no object id is out of bounds or repeated in the Parent
\* field, and the mapping bound is at most objectCount().
C29_TraversalBound ==
    (IsCgltfImporter /\ CgltfImporter_doIsOpened(state)
        /\ result.op = "scene") =>
        /\ ~result.undefined
        /\ ~result.dangling
        /\ \A i, j \in DOMAIN result.objects :
               result.objects[i] = result.objects[j] => i = j
        /\ Len(result.objects) <= Size(state.data.nodes)
        /\ Len(result.children) <= Size(state.data.nodes) + 1
        /\ Len(result.parents) = Len(result.objects)
        /\ result.mappingBound <= Size(state.data.nodes)

\* The scene of the walked file lists no root twice.
RootsDistinct ==
    LET roots == At(document.file.scenes, 0).nodes
    IN  \A i, j \in DOMAIN roots : roots[i] = roots[j] => i = j

\* Under SpecWalkFair: the cycle search of every file ends, and the whole
\* walk of a file whose scene lists no root twice ends, refused or with
\* the loop body run once per gathered object.
CycleSearchTerminates == <>(pc \notin {"cycle.for", "cycle.while"})

DistinctRootsTerminate ==
    RootsDistinct =>
        <>(\/ pc = "refused"
           \/ /\ pc = "done"
              /\ \A k \in DOMAIN state.processed : state.processed[k] = 1)

\* C30: the cycle search of openData() ends for every parent function,
\* and for every file it passes the gathering of scene() ends with the
\* inner loop body run once for each gathered object.  Of this, what a
\* finite run can refute: the gathering never reads objects out of bounds
\* or its loop bound from storage that children has left, never runs the
\* body twice on one position of objects, and when it is done it has run
\* it once on each.
C30_WalksTerminate ==
    /\ pc # "undefined"
    /\ ~state.held
    /\ \A k \in DOMAIN state.processed : state.processed[k] <= 1
    /\ pc = "done" =>
           \A k \in DOMAIN state.processed : state.processed[k] = 1

====
